---- MODULE Spec2Model ----
(***************************************************************************)
(* A model of the SFU: the router (its conference map and its main loop),  *)
(* the conference actor (its participant map and signaling handlers) and   *)
(* the peer (its termination and its callbacks into the conference sink).  *)
(***************************************************************************)
EXTENDS Integers, Sequences, FiniteSets, TLC

\* ------------------------------------------------------------------------
\* Bounds of the model.

\* Messages a conference inbox holds before a Send to it blocks.
MaxInbox == 1

\* ------------------------------------------------------------------------
\* Values.

Nil == "nil"

\* Conference ids that to-device events carry in `conf_id`.
ConfIDs == {"confA", "confB"}

\* A content without `conf_id`, or with one that is no string.
NoConfID == "absent"

ToDeviceCallInvite == "m.call.invite"

ToDeviceCallCandidates == "m.call.candidates"

ToDeviceCallSelectAnswer == "m.call.select_answer"

ToDeviceCallHangup == "m.call.hangup"

\* Any other to-device event type.
ToDeviceOther == "m.other"

EventTypes ==
    {ToDeviceCallInvite, ToDeviceCallCandidates, ToDeviceCallSelectAnswer,
     ToDeviceCallHangup, ToDeviceOther}

\* The event types the switch of handleMatrixEvent forwards.
ForwardedTypes == EventTypes \ {ToDeviceOther}

\* What the router reads of a to-device event: its type and its conf_id.
Events == [type : EventTypes, conf : ConfIDs \cup {NoConfID}]

NoEvent == [type |-> Nil, conf |-> NoConfID]

\* RouterMessage: a MatrixMessage or a ConferenceEndedMessage.
MatrixMessage(evt) ==
    [kind |-> "MatrixMessage", evt |-> evt, conferenceID |-> Nil, unread |-> NoEvent]

ConferenceEndedMessage(conferenceID, unreadMsg) ==
    [kind |-> "ConferenceEndedMessage", evt |-> NoEvent,
     conferenceID |-> conferenceID, unread |-> unreadMsg]

\* The router loop waits on its channel.
NoMessage == [kind |-> Nil, evt |-> NoEvent, conferenceID |-> Nil, unread |-> NoEvent]

VARIABLES
    conferenceSinks,  \* Router.conferenceSinks: the conf ids that have an entry
    routerMsg,        \* the message the router loop received and now handles
    routerPanicked,   \* the router goroutine dereferenced a nil conference
    routerLast,       \* the last message the router loop handled, and how
    confState,        \* per conference: "none", "running", "sealed", "ended"
    confInbox,        \* per conference: the messages sent and not yet read
    confUnread,       \* per conference: the unread message its Close returned
    participants,     \* Conference.participants: the registered participants
    confMsg,          \* the message the conference loop received and now handles
    signalingSent,    \* the recipients of the SDP answers handed to the signaler
    confLast,         \* the last message the conference handled, and how
    connectionState,  \* the state of the peer's peer connection
    sinkSealed,       \* the peer's message sink is sealed
    terminatePc,      \* where a call of Peer.Terminate stands
    stateCallbacks,   \* connection-state callbacks started and not yet run
    peerMessages,     \* what the peer's sink delivered and the conference has not read
    publishers,       \* PublishedTrack.video.publishers: the publisher of each layer
    pubLayer,         \* per publisher: the pubLayer of its processPublisherEvents
    pubPc,            \* per publisher: where its processPublisherEvents stands
    mutex,            \* PublishedTrack.mutex: the publisher whose goroutine holds it
    subscriptions,    \* PublishedTrack.subscriptions: the currentLayer of each subscriber
    attached,         \* per publisher: the subscriptions it writes packets to
    muted,            \* PublishedTrack.metadata.Muted
    trackLast,        \* the last status a processPublisherEvents handled, and how
    now,              \* the time, in units of 100 ms
    tickerDue,        \* when the ticker of the periodic WriteRTCP fires next
    canSendKeyframeAt,\* PublishedTrack.canSendKeyframeAt
    lastKeyframe,     \* when the last PLI or FIR went to the remote endpoint
    keyframeGap,      \* the time between the last two PLI or FIR that went out
    receivers,        \* peerConnection.GetReceivers(): the receivers of the peer connection
    writeCall,        \* the arguments of the last call of Peer.WriteRTCP
    writeResult,      \* what that call returned and handed to the peer connection
    dataChannel,      \* the peer's data channel pointer
    dcPc,             \* per announced data channel: where its onDataChannelReady stands
    dcSeen,           \* per onDataChannelReady: the pointer and the number of writes it saw
    dcClosed,         \* the data channels that were closed
    dcWrites,         \* how often the data channel pointer was assigned
    dcRaced,          \* an onDataChannelReady wrote after another task's write since its check
    sendResult,       \* what the last SendOverDataChannel returned
    senderClosed,     \* per RTCP read task: the sender it reads from is closed
    readerPc,         \* per RTCP read task: "reading" or "exited"
    readErrored,      \* per RTCP read task: a read failed with an error that is no close
    watchdogClosed,   \* the subscription's watchdog is closed
    readLast,         \* the last turn of an RTCP read loop, and what it did
    callerPc,         \* where the goroutine that calls the conference's handlers stands
    loopPc,           \* where the goroutine of processMessages stands
    handlerCalls,     \* the handler calls made so far
    peerEvents,       \* the peer messages processMessages took so far
    confParticipants, \* per conference of the router: its Conference.participants
    layerCall,        \* the arguments of the last call of getOptimalLayer
    layerResult,      \* the layer that call returned
    sinkOf,           \* per conf id: the conference whose sink the router's map holds
    sealedConfs,      \* per conf id: the conferences that closed their inbox
    endNotices,       \* per conf id: the conferences whose Notify the router has not handled
    loopPanicked,     \* the router goroutine sent on a nil conference handle
    loopLast          \* the last message this router loop handled, and how

routerVars ==
    <<conferenceSinks, routerMsg, routerPanicked, routerLast,
      confState, confInbox, confUnread>>

conferenceVars == <<participants, confMsg, signalingSent, confLast>>

peerVars ==
    <<connectionState, sinkSealed, terminatePc, stateCallbacks, peerMessages>>

trackVars ==
    <<publishers, pubLayer, pubPc, mutex, subscriptions, attached, muted,
      trackLast>>

rtcpVars == <<now, tickerDue, canSendKeyframeAt, lastKeyframe, keyframeGap>>

writeVars == <<receivers, writeCall, writeResult>>

dcVars == <<dataChannel, dcPc, dcSeen, dcClosed, dcWrites, dcRaced, sendResult>>

readVars == <<senderClosed, readerPc, readErrored, watchdogClosed, readLast>>

taskVars == <<callerPc, loopPc, handlerCalls, peerEvents>>

callsVars == <<confParticipants>>

layerVars == <<layerCall, layerResult>>

sinkVars == <<sinkOf, sealedConfs, endNotices, loopPanicked, loopLast>>

vars ==
    <<routerVars, conferenceVars, peerVars, trackVars, rtcpVars,
      writeVars, dcVars, readVars, taskVars, callsVars, layerVars,
      sinkVars>>

\* What the actions of one component leave alone.
notRouterVars ==
    <<conferenceVars, peerVars, trackVars, rtcpVars, writeVars,
      dcVars, readVars, taskVars, callsVars, layerVars, sinkVars>>

notConferenceVars ==
    <<routerVars, peerVars, trackVars, rtcpVars, writeVars, dcVars,
      readVars, taskVars, callsVars, layerVars, sinkVars>>

notPeerVars ==
    <<routerVars, conferenceVars, trackVars, rtcpVars, writeVars,
      dcVars, readVars, taskVars, callsVars, layerVars, sinkVars>>

notTrackVars ==
    <<routerVars, conferenceVars, peerVars, rtcpVars, writeVars,
      dcVars, readVars, taskVars, callsVars, layerVars, sinkVars>>

notRtcpVars ==
    <<routerVars, conferenceVars, peerVars, trackVars, writeVars,
      dcVars, readVars, taskVars, callsVars, layerVars, sinkVars>>

notWriteVars ==
    <<routerVars, conferenceVars, peerVars, trackVars, rtcpVars,
      dcVars, readVars, taskVars, callsVars, layerVars, sinkVars>>

notDcVars ==
    <<routerVars, conferenceVars, peerVars, trackVars, rtcpVars,
      writeVars, readVars, taskVars, callsVars, layerVars, sinkVars>>

notReadVars ==
    <<routerVars, conferenceVars, peerVars, trackVars, rtcpVars,
      writeVars, dcVars, taskVars, callsVars, layerVars, sinkVars>>

notTaskVars ==
    <<routerVars, conferenceVars, peerVars, trackVars, rtcpVars,
      writeVars, dcVars, readVars, callsVars, layerVars, sinkVars>>

notCallsVars ==
    <<routerVars, conferenceVars, peerVars, trackVars, rtcpVars,
      writeVars, dcVars, readVars, taskVars, layerVars, sinkVars>>

notLayerVars ==
    <<routerVars, conferenceVars, peerVars, trackVars, rtcpVars,
      writeVars, dcVars, readVars, taskVars, callsVars, sinkVars>>

notSinkVars ==
    <<routerVars, conferenceVars, peerVars, trackVars, rtcpVars,
      writeVars, dcVars, readVars, taskVars, callsVars, layerVars>>

\* ------------------------------------------------------------------------
\* common.Sender and the conference behind it.

\* The receiver side of a conference's channel is still open.
inboxOpen(states, conferenceID) == states[conferenceID] = "running"

\* Sender.Send: fails once the receiver closed the channel.
SendFails(states, conferenceID) == ~inboxOpen(states, conferenceID)

\* ------------------------------------------------------------------------
\* Router.handleMatrixEvent, as a function of the conference map, the state
\* of the conferences, the event and whether StartConference succeeds.  The
\* result names the map afterwards and the path taken:
\*   "no_conf_id"         conf_id absent or no string: return
\*   "created"            StartConference succeeded, the sink is registered
\*   "start_failed"       StartConference returned an error
\*   "unknown_conference" ignored: no conference and (per the guard) no invite
\*   "delivered"          conference.Send succeeded
\*   "nil_send"           conference.Send on a nil *Sender: the goroutine panics
\*   "not_expected"       the default case of the switch
Handled(sinks, outcome) == [sinks |-> sinks, outcome |-> outcome]

RECURSIVE handleMatrixEvent(_, _, _, _)

sendToConference(sinks, states, evt, startOk) ==
    IF evt.conf \notin sinks
    THEN Handled(sinks, "nil_send")
    ELSE IF SendFails(states, evt.conf)
         THEN handleMatrixEvent(sinks \ {evt.conf}, states, evt, startOk)
         ELSE Handled(sinks, "delivered")

\* handleMatrixEvent without the check of the event type: any event for an
\* unknown conference starts one.
handleMatrixEvent_StartsForAnyType(sinks, states, evt, startOk) ==
    IF evt.conf = NoConfID
    THEN Handled(sinks, "no_conf_id")
    ELSE IF evt.conf \notin sinks
         THEN IF startOk
              THEN Handled(sinks \cup {evt.conf}, "created")
              ELSE Handled(sinks, "start_failed")
         ELSE IF evt.type \in ForwardedTypes
              THEN sendToConference(sinks, states, evt, startOk)
              ELSE Handled(sinks, "not_expected")

handleMatrixEvent(sinks, states, evt, startOk) ==
    IF evt.conf = NoConfID
    THEN Handled(sinks, "no_conf_id")
    ELSE IF evt.conf \notin sinks /\ evt.type # ToDeviceCallInvite
         THEN IF evt.type = ToDeviceCallInvite
              THEN IF startOk
                   THEN Handled(sinks \cup {evt.conf}, "created")
                   ELSE Handled(sinks, "start_failed")
              ELSE Handled(sinks, "unknown_conference")
         ELSE IF evt.type \in ForwardedTypes
              THEN sendToConference(sinks, states, evt, startOk)
              ELSE Handled(sinks, "not_expected")

\* ------------------------------------------------------------------------
\* The router.

\* newRouter: no conference, the loop waits on the channel.
InitRouterIdle ==
    /\ routerMsg = NoMessage
    /\ routerPanicked = FALSE
    /\ routerLast = [kind |-> Nil, type |-> Nil, outcome |-> Nil]
    /\ confInbox = [c \in ConfIDs |-> <<>>]
    /\ confUnread = [c \in ConfIDs |-> NoEvent]

newRouter ==
    /\ conferenceSinks = {}
    /\ confState = [c \in ConfIDs |-> "none"]
    /\ InitRouterIdle

\* A Router value that serves a set of running conferences: each registered
\* sink belongs to a conference whose loop runs.
RouterServing ==
    /\ conferenceSinks \in SUBSET ConfIDs
    /\ confState = [c \in ConfIDs |-> IF c \in conferenceSinks THEN "running" ELSE "none"]
    /\ InitRouterIdle

\* The Matrix syncer hands a to-device event to the router's channel.
MatrixSync(evt) ==
    /\ ~routerPanicked
    /\ routerMsg = NoMessage
    /\ routerMsg' = MatrixMessage(evt)
    /\ UNCHANGED <<conferenceSinks, routerPanicked, routerLast,
                   confState, confInbox, confUnread>>
    /\ UNCHANGED notRouterVars

\* The loop's case MatrixMessage: router.handleMatrixEvent(msg).
RouterMatrixMessage(startOk) ==
    /\ ~routerPanicked
    /\ routerMsg.kind = "MatrixMessage"
    /\ LET evt == routerMsg.evt
           res == handleMatrixEvent(conferenceSinks, confState, evt, startOk)
       IN /\ res.outcome = "delivered" => Len(confInbox[evt.conf]) < MaxInbox
          /\ conferenceSinks' = res.sinks
          /\ routerPanicked' = (res.outcome = "nil_send")
          /\ routerLast' =
                [kind |-> "MatrixMessage", type |-> evt.type, outcome |-> res.outcome]
          /\ confInbox' =
                IF res.outcome = "delivered"
                THEN [confInbox EXCEPT ![evt.conf] = Append(@, evt)]
                ELSE IF res.outcome = "created"
                     THEN [confInbox EXCEPT ![evt.conf] = <<>>]
                     ELSE confInbox
          /\ confState' =
                IF res.outcome = "created"
                THEN [confState EXCEPT ![evt.conf] = "running"]
                ELSE confState
    /\ routerMsg' = NoMessage
    /\ UNCHANGED confUnread
    /\ UNCHANGED notRouterVars

\* The case ConferenceEndedMessage without its delete.
RouterConferenceEnded_KeepsEntry ==
    /\ ~routerPanicked
    /\ routerMsg.kind = "ConferenceEndedMessage"
    /\ routerLast' =
          [kind |-> "ConferenceEndedMessage", type |-> routerMsg.unread.type,
           outcome |-> "already_absent"]
    /\ routerMsg' = NoMessage
    /\ UNCHANGED <<conferenceSinks, routerPanicked, confState, confInbox, confUnread>>
    /\ UNCHANGED notRouterVars

\* The case ConferenceEndedMessage with the unread message handled as a
\* matrix event (the call the loop leaves commented out).
RouterConferenceEnded_ReplaysUnread ==
    /\ ~routerPanicked
    /\ routerMsg.kind = "ConferenceEndedMessage"
    /\ LET deleted == conferenceSinks \ {routerMsg.conferenceID}
           unread == [type |-> routerMsg.unread.type, conf |-> routerMsg.conferenceID]
           res == IF routerMsg.unread = NoEvent
                  THEN Handled(deleted, "deleted")
                  ELSE handleMatrixEvent(deleted, confState, unread, TRUE)
       IN /\ conferenceSinks' = res.sinks
          /\ routerPanicked' = (res.outcome = "nil_send")
          /\ routerLast' =
                [kind |-> "ConferenceEndedMessage", type |-> routerMsg.unread.type,
                 outcome |-> res.outcome]
          /\ confState' =
                IF res.outcome = "created"
                THEN [confState EXCEPT ![routerMsg.conferenceID] = "running"]
                ELSE confState
    /\ routerMsg' = NoMessage
    /\ UNCHANGED <<confInbox, confUnread>>
    /\ UNCHANGED notRouterVars

\* The loop's case ConferenceEndedMessage: delete the entry; the unread
\* message is not handled.
RouterConferenceEnded ==
    /\ ~routerPanicked
    /\ routerMsg.kind = "ConferenceEndedMessage"
    /\ conferenceSinks' = conferenceSinks \ {routerMsg.conferenceID}
    /\ routerLast' =
          [kind |-> "ConferenceEndedMessage", type |-> routerMsg.unread.type,
           outcome |-> IF routerMsg.conferenceID \in conferenceSinks
                       THEN "deleted" ELSE "already_absent"]
    /\ routerMsg' = NoMessage
    /\ UNCHANGED <<routerPanicked, confState, confInbox, confUnread>>
    /\ UNCHANGED notRouterVars

\* ------------------------------------------------------------------------
\* The conference as the router sees it.

\* The conference loop reads one message of its inbox.
ConferenceReceive(c) ==
    /\ ~routerPanicked
    /\ confState[c] = "running"
    /\ confInbox[c] # <<>>
    /\ confInbox' = [confInbox EXCEPT ![c] = Tail(@)]
    /\ UNCHANGED <<conferenceSinks, routerMsg, routerPanicked, routerLast,
                   confState, confUnread>>
    /\ UNCHANGED notRouterVars

\* The conference stops: it closes its inbox and keeps the unread message.
ConferenceClose(c) ==
    /\ ~routerPanicked
    /\ confState[c] = "running"
    /\ confState' = [confState EXCEPT ![c] = "sealed"]
    /\ confUnread' =
          [confUnread EXCEPT ![c] = IF confInbox[c] = <<>> THEN NoEvent ELSE Head(confInbox[c])]
    /\ confInbox' = [confInbox EXCEPT ![c] = <<>>]
    /\ UNCHANGED <<conferenceSinks, routerMsg, routerPanicked, routerLast>>
    /\ UNCHANGED notRouterVars

\* ConferenceEndNotifier.Notify: the closed conference hands its
\* ConferenceEndedMessage to the router's channel.
Notify(c) ==
    /\ ~routerPanicked
    /\ confState[c] = "sealed"
    /\ routerMsg = NoMessage
    /\ routerMsg' = ConferenceEndedMessage(c, confUnread[c])
    /\ confState' = [confState EXCEPT ![c] = "ended"]
    /\ confUnread' = [confUnread EXCEPT ![c] = NoEvent]
    /\ UNCHANGED <<conferenceSinks, routerPanicked, routerLast, confInbox>>
    /\ UNCHANGED notRouterVars

\* ------------------------------------------------------------------------
\* The conference actor: one conference, its participants and its handlers.

\* Signaler answers recorded before the conference takes no further invite.
MaxAnswers == 2

Users == {"@alice", "@bob"}

Devices == {"DEVA", "DEVB"}

Calls == {"call1", "call2"}

Sessions == {"sess1", "sess2"}

\* The device id of the SFU, which it stamps as party id on what it sends.
SFUDevice == "SFUDEV"

\* ParticipantID: the identity of a participant.
ParticipantIDs == [user : Users, device : Devices, call : Calls]

\* A message of the conference inbox: the participant it is about, the type
\* of its content, and the fields of the content the handlers read.
ConfMessage(type, id, session, party) ==
    [type |-> type, id |-> id, session |-> session, selectedPartyID |-> party]

InviteMessages ==
    {ConfMessage(ToDeviceCallInvite, id, ss, Nil) : id \in ParticipantIDs, ss \in Sessions}

CandidatesMessages ==
    {ConfMessage(ToDeviceCallCandidates, id, Nil, Nil) : id \in ParticipantIDs}

SelectAnswerMessages ==
    {ConfMessage(ToDeviceCallSelectAnswer, id, Nil, party) :
        id \in ParticipantIDs, party \in Devices \cup {SFUDevice}}

HangupMessages ==
    {ConfMessage(ToDeviceCallHangup, id, Nil, Nil) : id \in ParticipantIDs}

ConfMessages ==
    InviteMessages \cup CandidatesMessages \cup SelectAnswerMessages \cup HangupMessages

\* The conference loop waits on its inbox.
NoConfMessage ==
    [type |-> Nil, id |-> [user |-> Nil, device |-> Nil, call |-> Nil],
     session |-> Nil, selectedPartyID |-> Nil]

\* The steps of NewPeer that can fail, in the order it takes them.
PeerSteps ==
    {"createPeerConnection", "SetRemoteDescription", "CreateAnswer", "SetLocalDescription"}

\* Peer.ProcessSDPOffer: the error it returns when the step `failAt` fails.
ProcessSDPOffer(failAt) ==
    IF failAt = "SetRemoteDescription" THEN "ErrCantSetRemoteDescription"
    ELSE IF failAt = "CreateAnswer" THEN "ErrCantCreateAnswer"
    ELSE IF failAt = "SetLocalDescription" THEN "ErrCantSetLocalDescription"
    ELSE Nil

\* NewPeer: the error it returns (Nil: a peer and its SDP answer).
NewPeer(failAt) ==
    IF failAt = "createPeerConnection"
    THEN "ErrCantCreatePeerConnection"
    ELSE ProcessSDPOffer(failAt)

\* A Participant: its id, the session of its invite, and whether Terminate
\* was called on its peer.
Participant(id, session) ==
    [id |-> id, remoteSessionID |-> session, terminated |-> FALSE]

\* participant.peer.Terminate(), seen from the conference.
Terminated(participant) == [participant EXCEPT !.terminated = TRUE]

\* Participant.asMatrixRecipient.
asMatrixRecipient(participant) ==
    [user |-> participant.id.user, device |-> participant.id.device,
     call |-> participant.id.call, remoteSessionID |-> participant.remoteSessionID]

\* Conference.getParticipant: the participant registered under an id, if any.
getParticipant(parts, id) == {p \in parts : p.id = id}

\* The participants the loop of OnNewParticipant inspects: those whose
\* DeviceID equals the invite's.
SameDevice(parts, invite) == {p \in parts : p.id.device = invite.id.device}

\* The test of the session with its sense inverted.
Duplicates_OtherSession(parts, invite) ==
    {p \in SameDevice(parts, invite) : p.remoteSessionID # invite.session}

\* The participants on which the loop returns: same DeviceID, same session.
Duplicates(parts, invite) ==
    {p \in SameDevice(parts, invite) : p.remoteSessionID = invite.session}

\* The entry added beside the one that has the same key.
Register_KeepsOld(parts, participant) == parts \cup {participant}

\* c.participants[participantID] = participant: the entry of that key, if
\* any, is replaced.
Register(parts, participant) ==
    {p \in parts : p.id # participant.id} \cup {participant}

\* What OnNewParticipant did.
Joined(parts, outcome, answers) ==
    [participants |-> parts, outcome |-> outcome, answers |-> answers]

\* OnNewParticipant with the error of NewPeer not checked.
onNewParticipant_IgnoresPeerError(parts, invite, failAt, visited) ==
    LET duplicates == Duplicates(parts, invite)
        others == SameDevice(parts, invite) \ duplicates
        terminated == IF duplicates = {} THEN others ELSE others \cap visited
        afterLoop == {IF p \in terminated THEN Terminated(p) ELSE p : p \in parts}
        participant == Participant(invite.id, invite.session)
    IN IF duplicates # {}
       THEN Joined(afterLoop, "duplicate", <<>>)
       ELSE Joined(Register(afterLoop, participant), "registered",
                   <<asMatrixRecipient(participant)>>)

\* Conference.OnNewParticipant, as a function of the participant map, the
\* invite, the step at which NewPeer fails ("none": it succeeds) and the
\* participants the loop over the map meets before it returns (the order of
\* a map's iteration is not fixed).
onNewParticipant(parts, invite, failAt, visited) ==
    LET duplicates == Duplicates(parts, invite)
        others == SameDevice(parts, invite) \ duplicates
        terminated == IF duplicates = {} THEN others ELSE others \cap visited
        afterLoop == {IF p \in terminated THEN Terminated(p) ELSE p : p \in parts}
        participant == Participant(invite.id, invite.session)
    IN IF duplicates # {}
       THEN Joined(afterLoop, "duplicate", <<>>)
       ELSE IF NewPeer(failAt) # Nil
            THEN Joined(afterLoop, "peer_error", <<>>)
            ELSE Joined(Register(afterLoop, participant), "registered",
                        <<asMatrixRecipient(participant)>>)

\* A participant with this id and this session is registered.
Registered(parts, id, session) ==
    \E p \in parts : p.id = id /\ p.remoteSessionID = session

\* NewConference: no participant, the loop waits on its inbox.
NewConference ==
    /\ participants = {}
    /\ confMsg = NoConfMessage
    /\ signalingSent = <<>>
    /\ confLast = [type |-> Nil, outcome |-> Nil, failAt |-> Nil, known |-> FALSE]

\* The conference loop takes the next message of its inbox.
ConferenceLoop(msg) ==
    /\ confMsg = NoConfMessage
    /\ msg.type = ToDeviceCallInvite => Len(signalingSent) < MaxAnswers
    /\ confMsg' = msg
    /\ UNCHANGED <<participants, signalingSent, confLast>>
    /\ UNCHANGED notConferenceVars

OnNewParticipant(failAt, visited) ==
    /\ confMsg.type = ToDeviceCallInvite
    /\ LET res == onNewParticipant(participants, confMsg, failAt, visited)
       IN /\ participants' = res.participants
          /\ signalingSent' = signalingSent \o res.answers
          /\ confLast' =
                [type |-> confMsg.type, outcome |-> res.outcome, failAt |-> failAt,
                 known |-> Registered(participants, confMsg.id, confMsg.session)]
    /\ confMsg' = NoConfMessage
    /\ UNCHANGED notConferenceVars

\* OnCandidates: the candidates go to the peer of the participant, if any.
OnCandidates ==
    /\ confMsg.type = ToDeviceCallCandidates
    /\ confLast' =
          [type |-> confMsg.type,
           outcome |-> IF getParticipant(participants, confMsg.id) # {}
                       THEN "candidates_added" ELSE "no_participant",
           failAt |-> Nil, known |-> getParticipant(participants, confMsg.id) # {}]
    /\ confMsg' = NoConfMessage
    /\ UNCHANGED <<participants, signalingSent>>
    /\ UNCHANGED notConferenceVars

\* OnSelectAnswer: the peer is terminated when the selected party id differs
\* from the DeviceID of the participant.
OnSelectAnswer ==
    /\ confMsg.type = ToDeviceCallSelectAnswer
    /\ LET found == getParticipant(participants, confMsg.id)
           kicked == {p \in found : confMsg.selectedPartyID # p.id.device}
       IN /\ participants' =
                {IF p \in kicked THEN Terminated(p) ELSE p : p \in participants}
          /\ confLast' =
                [type |-> confMsg.type,
                 outcome |-> IF found = {} THEN "no_participant"
                             ELSE IF kicked # {} THEN "terminated" ELSE "kept",
                 failAt |-> Nil, known |-> getParticipant(participants, confMsg.id) # {}]
    /\ confMsg' = NoConfMessage
    /\ UNCHANGED signalingSent
    /\ UNCHANGED notConferenceVars

\* OnHangup: the peer of the participant, if any, is terminated.
OnHangup ==
    /\ confMsg.type = ToDeviceCallHangup
    /\ LET found == getParticipant(participants, confMsg.id)
       IN /\ participants' =
                {IF p \in found THEN Terminated(p) ELSE p : p \in participants}
          /\ confLast' =
                [type |-> confMsg.type,
                 outcome |-> IF found = {} THEN "no_participant" ELSE "terminated",
                 failAt |-> Nil, known |-> getParticipant(participants, confMsg.id) # {}]
    /\ confMsg' = NoConfMessage
    /\ UNCHANGED signalingSent
    /\ UNCHANGED notConferenceVars

NextConference ==
    \/ \E msg \in ConfMessages : ConferenceLoop(msg)
    \/ \E failAt \in PeerSteps \cup {"none"}, visited \in SUBSET participants :
          OnNewParticipant(failAt, visited)
    \/ OnCandidates
    \/ OnSelectAnswer
    \/ OnHangup

\* ------------------------------------------------------------------------
\* The peer: its peer connection, its sink into the conference, Terminate
\* and the callbacks the peer connection runs.

\* Messages the sink delivers before a Send blocks on the conference.
MaxPeerMessages == 2

\* Connection-state callbacks that wait to run.
MaxCallbacks == 2

\* webrtc.PeerConnectionState.
ConnectionStates == {"new", "connecting", "connected", "disconnected", "failed", "closed"}

\* The callbacks waiting to run, one count per connection state.
NoCallbacks == [st \in ConnectionStates |-> 0]

RECURSIVE SumOver(_, _)
SumOver(f, S) ==
    IF S = {} THEN 0
    ELSE LET x == CHOOSE y \in S : TRUE IN f[x] + SumOver(f, S \ {x})

PendingCallbacks(callbacks) == SumOver(callbacks, ConnectionStates)

\* The peer connection starts the handler of OnConnectionStateChange.
Scheduled(callbacks, state) == [callbacks EXCEPT ![state] = @ + 1]

\* MessageSink.Send: delivers, or fails when the sink is sealed.
Send(messages, sealed, msg) == IF sealed THEN messages ELSE Append(messages, msg)

\* A Send that would deliver waits while the conference inbox is full.
CanSend == sinkSealed \/ Len(peerMessages) < MaxPeerMessages

\* The peer NewPeer returned.
InitPeer ==
    /\ connectionState = "new"
    /\ sinkSealed = FALSE
    /\ terminatePc = "idle"
    /\ stateCallbacks = NoCallbacks
    /\ peerMessages = <<>>

\* The remote side or the network changes the state of the connection.
ConnectionStateChange(state) ==
    /\ connectionState # "closed"
    /\ state \notin {"new", "closed", connectionState}
    /\ PendingCallbacks(stateCallbacks) < MaxCallbacks
    /\ connectionState' = state
    /\ stateCallbacks' = Scheduled(stateCallbacks, state)
    /\ UNCHANGED <<sinkSealed, terminatePc, peerMessages>>
    /\ UNCHANGED notPeerVars

\* Peer.onConnectionStateChanged(state).
onConnectionStateChanged(state) ==
    /\ stateCallbacks[state] > 0
    /\ CanSend
    /\ stateCallbacks' = [stateCallbacks EXCEPT ![state] = @ - 1]
    /\ peerMessages' =
          IF state \in {"failed", "disconnected", "closed"}
          THEN Send(peerMessages, sinkSealed, "LeftTheCall")
          ELSE IF state = "connected"
               THEN Send(peerMessages, sinkSealed, "JoinedTheCall")
               ELSE peerMessages
    /\ UNCHANGED <<connectionState, sinkSealed, terminatePc>>
    /\ UNCHANGED notPeerVars

\* Peer.onICECandidateGathered: a candidate, or the end of the gathering.
onICECandidateGathered(last) ==
    /\ connectionState # "closed"
    /\ CanSend
    /\ peerMessages' =
          Send(peerMessages, sinkSealed,
               IF last THEN "ICEGatheringComplete" ELSE "NewICECandidate")
    /\ UNCHANGED <<connectionState, sinkSealed, terminatePc, stateCallbacks>>
    /\ UNCHANGED notPeerVars

\* Peer.readRTCP, one turn of its loop: ReadRTCP returns packets while the
\* connection is open, and the PLIs and FIRs among them go to the sink.
readRTCP ==
    /\ connectionState # "closed"
    /\ CanSend
    /\ peerMessages' = Send(peerMessages, sinkSealed, "RTCPReceived")
    /\ UNCHANGED <<connectionState, sinkSealed, terminatePc, stateCallbacks>>
    /\ UNCHANGED notPeerVars

\* Peer.Terminate, first statement: p.peerConnection.Close().
TerminateClose ==
    /\ terminatePc \in {"idle", "done"}
    /\ terminatePc' = "closed"
    /\ connectionState' = "closed"
    /\ stateCallbacks' =
          IF connectionState = "closed"
          THEN stateCallbacks
          ELSE Scheduled(stateCallbacks, "closed")
    /\ UNCHANGED <<sinkSealed, peerMessages>>
    /\ UNCHANGED notPeerVars

\* Peer.Terminate, second statement: p.sink.Seal().
TerminateSeal ==
    /\ terminatePc = "closed"
    /\ terminatePc' = "done"
    /\ sinkSealed' = TRUE
    /\ UNCHANGED <<connectionState, stateCallbacks, peerMessages>>
    /\ UNCHANGED notPeerVars

\* The conference loop reads a message of the peer.
ConferenceReadsPeer ==
    /\ peerMessages # <<>>
    /\ peerMessages' = Tail(peerMessages)
    /\ UNCHANGED <<connectionState, sinkSealed, terminatePc, stateCallbacks>>
    /\ UNCHANGED notPeerVars

NextPeer ==
    \/ \E state \in ConnectionStates : ConnectionStateChange(state)
    \/ \E state \in ConnectionStates : onConnectionStateChanged(state)
    \/ \E last \in BOOLEAN : onICECandidateGathered(last)
    \/ readRTCP
    \/ TerminateClose
    \/ TerminateSeal
    \/ ConferenceReadsPeer

\* ------------------------------------------------------------------------
\* The published track: the publishers of its simulcast layers, its
\* subscriptions and the goroutine that observes each publisher.

\* Publishers that addVideoPublisher creates for one published track.
MaxPublishers == 2

PubIDs == 1..MaxPublishers

\* No publisher under this layer of p.video.publishers.
NoPublisher == 0

\* webrtc_ext.SimulcastLayer of a simulcast track.
SimulcastLayerLow == "low"

SimulcastLayerMedium == "medium"

SimulcastLayerHigh == "high"

SimulcastLayerNone == "none"

Layers == {SimulcastLayerLow, SimulcastLayerMedium, SimulcastLayerHigh}

\* The subscribers of the track, and the mark of one that has no entry in
\* p.subscriptions.
SubIDs == {"sub1", "sub2"}

NoSubscription == "absent"

\* publisher.Status, and the end of the status channel.
StatusStalled == "stalled"

StatusRecovered == "recovered"

ChannelClosed == "closed"

Statuses == {StatusStalled, StatusRecovered, ChannelClosed}

\* PublishedTrack.getSubscriptionByLayer.
getSubscriptionByLayer(subs, layer) == {s \in SubIDs : subs[s] = layer}

\* Publisher.RemoveSubscription and Publisher.AddSubscription.
RemoveSubscription(att, pub, subs) == [att EXCEPT ![pub] = @ \ subs]

AddSubscription(att, pub, subs) == [att EXCEPT ![pub] = @ \cup subs]

\* Subscription.Unsubscribe: no publisher writes to the subscription again.
Unsubscribe(att, subs) == [pub \in PubIDs |-> att[pub] \ subs]

\* The currentLayer of the subscriptions `subs` becomes `layer`.
WithLayer(table, subs, layer) ==
    [s \in SubIDs |-> IF s \in subs THEN layer ELSE table[s]]

\* What a turn of processPublisherEvents leaves behind.
TrackHandled(pubs, table, att, outcome, moved) ==
    [publishers |-> pubs, subscriptions |-> table, attached |-> att,
     outcome |-> outcome, moved |-> moved]

\* Variant: the stall is handled whatever the metadata says.
onStalled_IgnoresMuted(pubs, table, att, pub, layer, isMuted) ==
    LET moved == getSubscriptionByLayer(table, layer)
        removed == RemoveSubscription(att, pub, moved)
        lowLayer == pubs[SimulcastLayerLow]
    IN IF lowLayer # NoPublisher
       THEN TrackHandled(pubs, WithLayer(table, moved, SimulcastLayerLow),
                         AddSubscription(removed, lowLayer, moved),
                         "switched_to_low", moved)
       ELSE TrackHandled(pubs, WithLayer(table, moved, SimulcastLayerNone),
                         removed, "no_layer", moved)

\* Variant: the subscriptions move to the low publisher and keep their
\* currentLayer.
onStalled_KeepsLayer(pubs, table, att, pub, layer, isMuted) ==
    LET moved == getSubscriptionByLayer(table, layer)
        removed == RemoveSubscription(att, pub, moved)
        lowLayer == pubs[SimulcastLayerLow]
    IN IF isMuted THEN TrackHandled(pubs, table, att, "muted", {})
       ELSE IF lowLayer # NoPublisher
            THEN TrackHandled(pubs, table, AddSubscription(removed, lowLayer, moved),
                              "switched_to_low", moved)
            ELSE TrackHandled(pubs, WithLayer(table, moved, SimulcastLayerNone),
                              removed, "no_layer", moved)

\* Variant: without a low publisher the subscriptions stay on the stalled one.
onStalled_StaysAttached(pubs, table, att, pub, layer, isMuted) ==
    LET moved == getSubscriptionByLayer(table, layer)
        removed == RemoveSubscription(att, pub, moved)
        lowLayer == pubs[SimulcastLayerLow]
    IN IF isMuted THEN TrackHandled(pubs, table, att, "muted", {})
       ELSE IF lowLayer # NoPublisher
            THEN TrackHandled(pubs, WithLayer(table, moved, SimulcastLayerLow),
                              AddSubscription(removed, lowLayer, moved),
                              "switched_to_low", moved)
            ELSE TrackHandled(pubs, WithLayer(table, moved, SimulcastLayerNone),
                              att, "no_layer", moved)

\* processPublisherEvents, case publisher.StatusStalled, under the mutex.
onStalled(pubs, table, att, pub, layer, isMuted) ==
    LET moved == getSubscriptionByLayer(table, layer)
        removed == RemoveSubscription(att, pub, moved)
        lowLayer == pubs[SimulcastLayerLow]
    IN IF isMuted THEN TrackHandled(pubs, table, att, "muted", {})
       ELSE IF lowLayer # NoPublisher
            THEN TrackHandled(pubs, WithLayer(table, moved, SimulcastLayerLow),
                              AddSubscription(removed, lowLayer, moved),
                              "switched_to_low", moved)
            ELSE TrackHandled(pubs, WithLayer(table, moved, SimulcastLayerNone),
                              removed, "no_layer", moved)

\* processPublisherEvents, case publisher.StatusRecovered, under the mutex.
onRecovered(pubs, table, att, pub, layer) ==
    LET moved == getSubscriptionByLayer(table, SimulcastLayerNone)
    IN TrackHandled(pubs, WithLayer(table, moved, layer),
                    AddSubscription(att, pub, moved), "reattached", moved)

\* Variant: the publisher goes and its subscriptions stay in the table.
onStopped_KeepsSubscriptions(pubs, table, att, layer) ==
    TrackHandled([pubs EXCEPT ![layer] = NoPublisher], table, att, "removed",
                 getSubscriptionByLayer(table, layer))

\* processPublisherEvents after the loop: the status channel is closed.
onStopped(pubs, table, att, layer) ==
    LET moved == getSubscriptionByLayer(table, layer)
    IN TrackHandled([pubs EXCEPT ![layer] = NoPublisher],
                    WithLayer(table, moved, NoSubscription),
                    Unsubscribe(att, moved), "removed", moved)

\* p.activePublishers: the processPublisherEvents that have not returned.
ActivePublishers == {pub \in PubIDs : pubPc[pub] \notin {"none", "returned"}}

NoTrackLast ==
    [status |-> Nil, pub |-> NoPublisher, layer |-> Nil, outcome |-> Nil, moved |-> {}]

\* A conference in which no track is published.
NoPublishedTrack ==
    /\ publishers = [layer \in Layers |-> NoPublisher]
    /\ pubLayer = [pub \in PubIDs |-> Nil]
    /\ pubPc = [pub \in PubIDs |-> "none"]
    /\ mutex = NoPublisher
    /\ subscriptions = [s \in SubIDs |-> NoSubscription]
    /\ attached = [pub \in PubIDs |-> {}]
    /\ muted = FALSE
    /\ trackLast = NoTrackLast

\* A published video track after the first remote track arrived: one
\* publisher, on the layer of the RID of that track.
NewPublishedTrack ==
    /\ \E layer \in Layers :
          /\ publishers = [l \in Layers |-> IF l = layer THEN 1 ELSE NoPublisher]
          /\ pubLayer = [pub \in PubIDs |-> IF pub = 1 THEN layer ELSE Nil]
    /\ pubPc = [pub \in PubIDs |-> IF pub = 1 THEN "range" ELSE "none"]
    /\ mutex = NoPublisher
    /\ subscriptions = [s \in SubIDs |-> NoSubscription]
    /\ attached = [pub \in PubIDs |-> {}]
    /\ muted \in BOOLEAN
    /\ trackLast = NoTrackLast

\* PublishedTrack.addVideoPublisher: the publisher of the layer of the remote
\* track takes the place of that layer in the map, and its
\* processPublisherEvents starts.  The track takes publishers while it is open.
addVideoPublisher(simulcast) ==
    /\ ActivePublishers # {}
    /\ \E pub \in PubIDs :
          /\ pubPc[pub] = "none"
          /\ \A other \in PubIDs : other < pub => pubPc[other] # "none"
          /\ publishers' = [publishers EXCEPT ![simulcast] = pub]
          /\ pubLayer' = [pubLayer EXCEPT ![pub] = simulcast]
          /\ pubPc' = [pubPc EXCEPT ![pub] = "range"]
    /\ UNCHANGED <<mutex, subscriptions, attached, muted, trackLast>>
    /\ UNCHANGED notTrackVars

\* A subscriber subscribes to the track on one of the layers it has.
Subscribe(sub, layer) ==
    /\ subscriptions[sub] = NoSubscription
    /\ publishers[layer] # NoPublisher
    /\ subscriptions' = [subscriptions EXCEPT ![sub] = layer]
    /\ attached' = AddSubscription(attached, publishers[layer], {sub})
    /\ UNCHANGED <<publishers, pubLayer, pubPc, mutex, muted, trackLast>>
    /\ UNCHANGED notTrackVars

\* processPublisherEvents, `for status := range pubChannel`: the goroutine takes
\* the next status of its publisher, or finds the channel closed.
RangePubChannel(pub, status) ==
    /\ pubPc[pub] = "range"
    /\ pubPc' = [pubPc EXCEPT ![pub] = status]
    /\ UNCHANGED <<publishers, pubLayer, mutex, subscriptions, attached, muted,
                   trackLast>>
    /\ UNCHANGED notTrackVars

\* case publisher.StatusStalled: p.mutex.Lock(), whose deferred Unlock waits
\* for the return of processPublisherEvents, then the body of the case.
ProcessStalled(pub) ==
    /\ pubPc[pub] = StatusStalled
    /\ mutex = NoPublisher
    /\ mutex' = pub
    /\ LET res == onStalled(publishers, subscriptions, attached, pub, pubLayer[pub], muted)
       IN /\ subscriptions' = res.subscriptions
          /\ attached' = res.attached
          /\ trackLast' =
                [status |-> StatusStalled, pub |-> pub, layer |-> pubLayer[pub],
                 outcome |-> res.outcome, moved |-> res.moved]
    /\ pubPc' = [pubPc EXCEPT ![pub] = "range"]
    /\ UNCHANGED <<publishers, pubLayer, muted>>
    /\ UNCHANGED notTrackVars

\* case publisher.StatusRecovered: p.mutex.Lock(), the deferred Unlock, then
\* the body of the case.
ProcessRecovered(pub) ==
    /\ pubPc[pub] = StatusRecovered
    /\ mutex = NoPublisher
    /\ mutex' = pub
    /\ LET res == onRecovered(publishers, subscriptions, attached, pub, pubLayer[pub])
       IN /\ subscriptions' = res.subscriptions
          /\ attached' = res.attached
          /\ trackLast' =
                [status |-> StatusRecovered, pub |-> pub, layer |-> pubLayer[pub],
                 outcome |-> res.outcome, moved |-> res.moved]
    /\ pubPc' = [pubPc EXCEPT ![pub] = "range"]
    /\ UNCHANGED <<publishers, pubLayer, muted>>
    /\ UNCHANGED notTrackVars

\* After the loop: p.mutex.Lock(), the removal of the publisher and of its
\* subscriptions, and the return, which runs the deferred Unlock.
ProcessStopped(pub) ==
    /\ pubPc[pub] = ChannelClosed
    /\ mutex = NoPublisher
    /\ LET res == onStopped(publishers, subscriptions, attached, pubLayer[pub])
       IN /\ publishers' = res.publishers
          /\ subscriptions' = res.subscriptions
          /\ attached' = res.attached
          /\ trackLast' =
                [status |-> ChannelClosed, pub |-> pub, layer |-> pubLayer[pub],
                 outcome |-> res.outcome, moved |-> res.moved]
    /\ pubPc' = [pubPc EXCEPT ![pub] = "returned"]
    /\ UNCHANGED <<pubLayer, mutex, muted>>
    /\ UNCHANGED notTrackVars

NextTrack ==
    \/ \E simulcast \in Layers : addVideoPublisher(simulcast)
    \/ \E sub \in SubIDs, layer \in Layers : Subscribe(sub, layer)
    \/ \E pub \in PubIDs, status \in Statuses : RangePubChannel(pub, status)
    \/ \E pub \in PubIDs : ProcessStalled(pub)
    \/ \E pub \in PubIDs : ProcessRecovered(pub)
    \/ \E pub \in PubIDs : ProcessStopped(pub)

\* ------------------------------------------------------------------------
\* Key frame requests: the PLI and FIR packets that go to the remote endpoint
\* of a peer, through Peer.WriteRTCP and through the periodic WriteRTCP.

\* The time the model follows, in units of 100 ms.
MaxTime == 12

\* time.NewTicker(time.Millisecond * 200), in units of 100 ms.
TickerInterval == 2

\* pli_min_interval_ms, 500 ms by default, in units of 100 ms.
PLIMinInterval == 5

\* No PLI or FIR went out yet.
NoTime == -1

\* RTCPPacket.Type.
PictureLossIndicator == "PLI"

FullIntraRequest == "FIR"

\* The slices of packets a subscriber's RTCP read hands over at once.
PacketSlices ==
    {<<PictureLossIndicator>>, <<FullIntraRequest>>,
     <<PictureLossIndicator, FullIntraRequest>>}

\* peerConnection.WriteRTCP(toSend): the packets go out now, one after the
\* other; the result tells when the last went and how long after the one
\* before it.
RECURSIVE SendRTCP(_, _, _, _)
SendRTCP(toSend, time, last, gap) ==
    IF toSend = <<>> THEN [lastKeyframe |-> last, keyframeGap |-> gap]
    ELSE SendRTCP(Tail(toSend), time, time, IF last = NoTime THEN gap ELSE time - last)

\* Peer.WriteRTCP: every PLI and FIR of `packets` is rewritten and written to
\* the peer connection.
PeerWriteRTCP(packets, time, last, gap) == SendRTCP(packets, time, last, gap)

InitRTCP ==
    /\ now = 0
    /\ tickerDue = TickerInterval
    /\ canSendKeyframeAt = 0
    /\ lastKeyframe = NoTime
    /\ keyframeGap = NoTime

\* Time passes, up to the next tick of the ticker.
Tick ==
    /\ now < MaxTime
    /\ now < tickerDue
    /\ now' = now + 1
    /\ UNCHANGED <<tickerDue, canSendKeyframeAt, lastKeyframe, keyframeGap>>
    /\ UNCHANGED notRtcpVars

\* WriteRTCP of a video track, one turn of `for range ticker.C`: a PLI is
\* written to the peer connection.
WriteRTCP ==
    /\ now = tickerDue
    /\ LET res == SendRTCP(<<PictureLossIndicator>>, now, lastKeyframe, keyframeGap)
       IN /\ lastKeyframe' = res.lastKeyframe
          /\ keyframeGap' = res.keyframeGap
    /\ tickerDue' = now + TickerInterval
    /\ UNCHANGED <<now, canSendKeyframeAt>>
    /\ UNCHANGED notRtcpVars

\* The conference handles the RTCP packets a subscriber sent for a published
\* track: they go to Peer.WriteRTCP of the publishing peer when
\* canSendKeyframeAt has passed, and are dropped before.
OnRTCPReceived(packets) ==
    /\ IF now >= canSendKeyframeAt
       THEN LET res == PeerWriteRTCP(packets, now, lastKeyframe, keyframeGap)
            IN /\ lastKeyframe' = res.lastKeyframe
               /\ keyframeGap' = res.keyframeGap
               /\ canSendKeyframeAt' = now + PLIMinInterval
       ELSE UNCHANGED <<canSendKeyframeAt, lastKeyframe, keyframeGap>>
    /\ UNCHANGED <<now, tickerDue>>
    /\ UNCHANGED notRtcpVars

NextRTCP ==
    \/ Tick
    \/ WriteRTCP
    \/ \E packets \in PacketSlices : OnRTCPReceived(packets)

\* ------------------------------------------------------------------------
\* Peer.WriteRTCP: the packets of a subscriber are rewritten for the receiver
\* of the published track and handed to the peer connection.

\* The receivers a peer connection holds at most.
MaxReceivers == 2

\* The packets one call of Peer.WriteRTCP gets at most.
MaxPackets == 2

TrackIDs == {"video1", "video2"}

\* The RID header values of simulcast tracks.
RIDs == {"q", "h", "f"}

\* webrtc_ext.RIDToSimulcastLayer.
RIDToSimulcastLayer(rid) ==
    CASE rid = "q" -> SimulcastLayerLow
      [] rid = "h" -> SimulcastLayerMedium
      [] rid = "f" -> SimulcastLayerHigh
      [] OTHER -> SimulcastLayerNone

\* A receiver whose Track() is nil.
NoTrack == [hasTrack |-> FALSE, trackID |-> Nil, rid |-> Nil, ssrc |-> 0]

\* The SSRC of the remote track of the n-th receiver.
ReceiverSSRC(n) == 1000 + n

\* The media SSRC a subscriber's packet carries when it arrives.
SubscriberSSRC == 7

\* An RTCP packet of a type other than PLI and FIR.
OtherPacket == "other"

PacketTypes == {PictureLossIndicator, FullIntraRequest, OtherPacket}

\* RTCPPacket: Type and the media SSRC of Content.
RTCPPacket(type) == [type |-> type, mediaSSRC |-> SubscriberSSRC]

\* A nil element of a []rtcp.Packet.
NilPacket == [type |-> Nil, mediaSSRC |-> 0]

\* ExtendedTrackInfo: TrackID and Layer.
TrackInfos == [trackID : TrackIDs, layer : Layers]

ErrTrackNotFound == "ErrTrackNotFound"

\* slices.IndexFunc(receivers, ...): the first receiver with a track of the
\* given id and layer, 0 (for -1) when there is none.
RECURSIVE IndexFunc(_, _, _)
IndexFunc(recvs, info, i) ==
    IF i > Len(recvs) THEN 0
    ELSE IF /\ recvs[i].hasTrack
            /\ recvs[i].trackID = info.trackID
            /\ RIDToSimulcastLayer(recvs[i].rid) = info.layer
         THEN i
         ELSE IndexFunc(recvs, info, i + 1)

\* The same, where the FIR goes out as it came in.
Rewrite_KeepsFIR(packet, ssrc) ==
    CASE packet.type = PictureLossIndicator ->
            [type |-> PictureLossIndicator, mediaSSRC |-> ssrc]
      [] packet.type = FullIntraRequest -> packet
      [] OTHER -> NilPacket

\* The switch of the loop of Peer.WriteRTCP: what toSend[i] is after it.
Rewrite(packet, ssrc) ==
    CASE packet.type = PictureLossIndicator ->
            [type |-> PictureLossIndicator, mediaSSRC |-> ssrc]
      [] packet.type = FullIntraRequest ->
            [type |-> FullIntraRequest, mediaSSRC |-> ssrc]
      [] OTHER -> NilPacket

\* Peer.WriteRTCP(info, packets) with the receivers `recvs`: the error it
\* returns, whether peerConnection.WriteRTCP was called, and with what.
Peer_WriteRTCP(recvs, info, packets) ==
    LET receiverIndex == IndexFunc(recvs, info, 1)
    IN IF receiverIndex = 0
       THEN [err |-> ErrTrackNotFound, wrote |-> FALSE, toSend |-> <<>>]
       ELSE LET ssrc == recvs[receiverIndex].ssrc
            IN [err |-> Nil, wrote |-> TRUE,
                toSend |-> [i \in 1..Len(packets) |-> Rewrite(packets[i], ssrc)]]

\* No call of Peer.WriteRTCP yet.
NoWriteCall == [info |-> [trackID |-> Nil, layer |-> Nil], packets |-> <<>>]

NoWriteResult == [err |-> Nil, wrote |-> FALSE, toSend |-> <<>>]

InitWriteRTCP ==
    /\ receivers = <<>>
    /\ writeCall = NoWriteCall
    /\ writeResult = NoWriteResult

\* The remote side added a track (hasTrack) or a transceiver that has
\* received nothing yet: the peer connection has one more receiver.
AddReceiver(hasTrack, trackID, rid) ==
    /\ Len(receivers) < MaxReceivers
    /\ receivers' =
          Append(receivers,
                 IF hasTrack
                 THEN [hasTrack |-> TRUE, trackID |-> trackID, rid |-> rid,
                       ssrc |-> ReceiverSSRC(Len(receivers) + 1)]
                 ELSE NoTrack)
    /\ UNCHANGED <<writeCall, writeResult>>
    /\ UNCHANGED notWriteVars

\* The sequences of at most n packets.
PacketLists(n) == UNION {[1..k -> {RTCPPacket(t) : t \in PacketTypes}] : k \in 0..n}

\* One call of Peer.WriteRTCP.
CallWriteRTCP(info, packets) ==
    /\ writeCall' = [info |-> info, packets |-> packets]
    /\ writeResult' = Peer_WriteRTCP(receivers, info, packets)
    /\ UNCHANGED receivers
    /\ UNCHANGED notWriteVars

NextWriteRTCP ==
    \/ \E trackID \in TrackIDs, rid \in RIDs : AddReceiver(TRUE, trackID, rid)
    \/ AddReceiver(FALSE, Nil, Nil)
    \/ \E info \in TrackInfos, packets \in PacketLists(MaxPackets) :
          CallWriteRTCP(info, packets)

\* ------------------------------------------------------------------------
\* The data channel of a peer: onDataChannelReady runs once per data channel
\* the remote side announces, each run in a goroutine of its own, and
\* SendOverDataChannel runs on its caller's goroutine.

\* The data channels the remote side announces at most.
MaxDataChannels == 3

DataChannels == 1..MaxDataChannels

\* A nil *webrtc.DataChannel.
NoDataChannel == 0

ErrDataChannelNotAvailable == "ErrDataChannelNotAvailable"

ErrDataChannelNotReady == "ErrDataChannelNotReady"

\* p.state.GetDataChannel(): one read of the pointer.
GetDataChannel(pointer) == pointer

\* p.state.SetDataChannel(dc): one write of the pointer.
SetDataChannel(pointer, dc) == dc

\* Peer.SendOverDataChannel, given the pointer and whether the channel it
\* points to is open.
SendOverDataChannel(pointer, open) ==
    IF pointer = NoDataChannel THEN ErrDataChannelNotAvailable
    ELSE IF ~open THEN ErrDataChannelNotReady
    ELSE "sent"

InitDataChannel ==
    /\ dataChannel = NoDataChannel
    /\ dcPc = [dc \in DataChannels |-> "announced"]
    /\ dcSeen = [dc \in DataChannels |-> [pointer |-> NoDataChannel, writes |-> 0]]
    /\ dcClosed = {}
    /\ dcWrites = 0
    /\ dcRaced = FALSE
    /\ sendResult = Nil

\* onDataChannelReady(dc), the condition of its `if`: the pointer is read.
DataChannelCheck(dc) ==
    /\ dcPc[dc] = "announced"
    /\ LET seen == GetDataChannel(dataChannel)
       IN /\ dcSeen' = [dcSeen EXCEPT ![dc] = [pointer |-> seen, writes |-> dcWrites]]
          /\ dcPc' = [dcPc EXCEPT ![dc] =
                         IF seen # NoDataChannel THEN "exists" ELSE "assign"]
    /\ UNCHANGED <<dataChannel, dcClosed, dcWrites, dcRaced, sendResult>>
    /\ UNCHANGED notDcVars

\* onDataChannelReady(dc), the body of its `if`: the channel that was there
\* is closed and the pointer is set to nil.
DataChannelExists(dc) ==
    /\ dcPc[dc] = "exists"
    /\ dcClosed' = dcClosed \cup {dcSeen[dc].pointer}
    /\ dataChannel' = SetDataChannel(dataChannel, NoDataChannel)
    /\ dcWrites' = dcWrites + 1
    /\ dcRaced' = (dcRaced \/ dcWrites # dcSeen[dc].writes)
    /\ dcPc' = [dcPc EXCEPT ![dc] = "returned"]
    /\ UNCHANGED <<dcSeen, sendResult>>
    /\ UNCHANGED notDcVars

\* onDataChannelReady(dc) after its `if`: the pointer is set to dc and the
\* callbacks of dc are registered.
DataChannelAssign(dc) ==
    /\ dcPc[dc] = "assign"
    /\ dataChannel' = SetDataChannel(dataChannel, dc)
    /\ dcWrites' = dcWrites + 1
    /\ dcRaced' = (dcRaced \/ dcWrites # dcSeen[dc].writes)
    /\ dcPc' = [dcPc EXCEPT ![dc] = "returned"]
    /\ UNCHANGED <<dcSeen, dcClosed, sendResult>>
    /\ UNCHANGED notDcVars

\* One call of Peer.SendOverDataChannel; `open` is the ReadyState of the
\* channel the pointer names.
CallSendOverDataChannel(open) ==
    /\ open => dataChannel # NoDataChannel /\ dataChannel \notin dcClosed
    /\ sendResult' = SendOverDataChannel(dataChannel, open)
    /\ UNCHANGED <<dataChannel, dcPc, dcSeen, dcClosed, dcWrites, dcRaced>>
    /\ UNCHANGED notDcVars

NextDataChannel ==
    \/ \E dc \in DataChannels : DataChannelCheck(dc)
    \/ \E dc \in DataChannels : DataChannelExists(dc)
    \/ \E dc \in DataChannels : DataChannelAssign(dc)
    \/ \E open \in BOOLEAN : CallSendOverDataChannel(open)

\* ------------------------------------------------------------------------
\* The RTCP read loops: Subscription.readRTCP and Peer.readRTCP, each in a
\* goroutine of its own, each reading from one RTP sender.

\* The packets one ReadRTCP returns at most.
MaxBatch == 2

SubscriptionReader == "subscription"

PeerReader == "peer"

Readers == {SubscriptionReader, PeerReader}

\* What rtpSender.ReadRTCP returns: packets, io.ErrClosedPipe, io.EOF, or
\* another error.
ReadPackets == "packets"

ErrClosedPipe == "ErrClosedPipe"

EOF == "EOF"

OtherError == "other_error"

\* The results a read can have: a closed sender fails every read with
\* closed pipe or EOF, an open one returns packets or fails otherwise.
ReadRTCPOutcomes(closed) ==
    IF closed THEN {ErrClosedPipe, EOF} ELSE {ReadPackets, OtherError}

\* The packets that come with a result: none with an error.
Batches(outcome) ==
    IF outcome = ReadPackets
    THEN UNION {[1..k -> PacketTypes] : k \in 0..MaxBatch}
    ELSE {<<>>}

\* The same, where EOF does not end the loop.
IsClosedError_OnlyClosedPipe(outcome) == outcome = ErrClosedPipe

\* errors.Is(err, io.ErrClosedPipe) || errors.Is(err, io.EOF).
IsClosedError(outcome) == outcome \in {ErrClosedPipe, EOF}

\* The same, where only a PLI is a key frame request.
IsKeyFrameRequest_OnlyPLI(type) == type = PictureLossIndicator

\* case *rtcp.PictureLossIndication, *rtcp.FullIntraRequest.
IsKeyFrameRequest(type) == type \in {PictureLossIndicator, FullIntraRequest}

\* `for _, packet := range packets` of Subscription.readRTCP: the number of
\* calls of s.connection.RequestKeyFrame.
RECURSIVE RequestKeyFrameCalls(_)
RequestKeyFrameCalls(packets) ==
    IF packets = <<>> THEN 0
    ELSE (IF IsKeyFrameRequest(Head(packets)) THEN 1 ELSE 0)
            + RequestKeyFrameCalls(Tail(packets))

\* `for _, packet := range packets` of Peer.readRTCP: toForward.
RECURSIVE ToForward(_)
ToForward(packets) ==
    IF packets = <<>> THEN <<>>
    ELSE IF Head(packets) = PictureLossIndicator
         THEN <<PictureLossIndicator>> \o ToForward(Tail(packets))
         ELSE IF Head(packets) = FullIntraRequest
              THEN <<FullIntraRequest>> \o ToForward(Tail(packets))
              ELSE ToForward(Tail(packets))

NoRead ==
    [reader |-> Nil, outcome |-> Nil, batch |-> <<>>, requests |-> 0,
     forwarded |-> <<>>, sent |-> FALSE]

InitReadRTCP ==
    /\ senderClosed = [r \in Readers |-> FALSE]
    /\ readerPc = [r \in Readers |-> "reading"]
    /\ readErrored = [r \in Readers |-> FALSE]
    /\ watchdogClosed = FALSE
    /\ readLast = NoRead

\* The sender a task reads from is closed: Peer.Terminate closes the peer
\* connection, Unsubscribe removes the sender.
CloseSender(r) ==
    /\ ~senderClosed[r]
    /\ senderClosed' = [senderClosed EXCEPT ![r] = TRUE]
    /\ UNCHANGED <<readerPc, readErrored, watchdogClosed, readLast>>
    /\ UNCHANGED notReadVars

\* One turn of the loop of Subscription.readRTCP.
SubscriptionReadRTCP(outcome, batch) ==
    /\ readerPc[SubscriptionReader] = "reading"
    /\ outcome \in ReadRTCPOutcomes(senderClosed[SubscriptionReader])
    /\ batch \in Batches(outcome)
    /\ IF IsClosedError(outcome)
       THEN /\ watchdogClosed' = TRUE
            /\ readerPc' = [readerPc EXCEPT ![SubscriptionReader] = "exited"]
            /\ readLast' = [NoRead EXCEPT !.reader = SubscriptionReader,
                                          !.outcome = outcome]
            /\ UNCHANGED readErrored
       ELSE /\ readLast' = [NoRead EXCEPT !.reader = SubscriptionReader,
                                          !.outcome = outcome,
                                          !.batch = batch,
                                          !.requests = RequestKeyFrameCalls(batch)]
            /\ readErrored' = [readErrored EXCEPT ![SubscriptionReader] =
                                  @ \/ outcome = OtherError]
            /\ UNCHANGED <<readerPc, watchdogClosed>>
    /\ UNCHANGED senderClosed
    /\ UNCHANGED notReadVars

\* One turn of the loop of Peer.readRTCP; `hasTrack` is whether
\* rtpSender.Track() is not nil.
PeerReadRTCP(outcome, batch, hasTrack) ==
    /\ readerPc[PeerReader] = "reading"
    /\ outcome \in ReadRTCPOutcomes(senderClosed[PeerReader])
    /\ batch \in Batches(outcome)
    /\ IF IsClosedError(outcome)
       THEN /\ readerPc' = [readerPc EXCEPT ![PeerReader] = "exited"]
            /\ readLast' = [NoRead EXCEPT !.reader = PeerReader,
                                          !.outcome = outcome]
            /\ UNCHANGED readErrored
       ELSE /\ readLast' = [NoRead EXCEPT !.reader = PeerReader,
                                          !.outcome = outcome,
                                          !.batch = batch,
                                          !.forwarded = ToForward(batch),
                                          !.sent = hasTrack]
            /\ readerPc' = [readerPc EXCEPT ![PeerReader] =
                               IF hasTrack THEN "reading" ELSE "exited"]
            /\ readErrored' = [readErrored EXCEPT ![PeerReader] =
                                  @ \/ outcome = OtherError]
    /\ UNCHANGED <<senderClosed, watchdogClosed>>
    /\ UNCHANGED notReadVars

ReadOutcomes == {ReadPackets, ErrClosedPipe, EOF, OtherError}

SubscriptionTurn ==
    \E outcome \in ReadOutcomes :
       \E batch \in Batches(outcome) : SubscriptionReadRTCP(outcome, batch)

PeerTurn ==
    \E outcome \in ReadOutcomes, hasTrack \in BOOLEAN :
       \E batch \in Batches(outcome) : PeerReadRTCP(outcome, batch, hasTrack)

NextReadRTCP ==
    \/ \E r \in Readers : CloseSender(r)
    \/ SubscriptionTurn
    \/ PeerTurn

\* ------------------------------------------------------------------------
\* The goroutines that touch Conference.participants: the one that calls
\* the exported handlers OnNewParticipant, OnCandidates, OnSelectAnswer and
\* OnHangup, and the one NewConference starts for processMessages.

\* The handler calls the model follows.
MaxHandlerCalls == 3

Handlers == {"OnNewParticipant", "OnCandidates", "OnSelectAnswer", "OnHangup"}

\* The positions of the caller's goroutine: outside a handler ("idle"), or
\* in a handler at an access of c.participants ("range", "store",
\* "metadata", "lookup") or between two of them ("newPeer").
MapAccesses == {"range", "store", "metadata", "lookup"}

\* The first position of a handler.
HandlerEntry(handler) ==
    IF handler = "OnNewParticipant" THEN "range" ELSE "lookup"

\* The position after `pc` in the handler; `proceeds` is whether
\* OnNewParticipant goes on after the position (no duplicate found, NewPeer
\* without error).
HandlerNext(pc, proceeds) ==
    CASE pc = "range" -> IF proceeds THEN "newPeer" ELSE "idle"
      [] pc = "newPeer" -> IF proceeds THEN "store" ELSE "idle"
      [] pc = "store" -> "metadata"
      [] OTHER -> "idle"

\* The caller's goroutine is in no handler.
Idle == [handler |-> Nil, at |-> "idle"]

InitTasks ==
    /\ callerPc = Idle
    /\ loopPc = "receive"
    /\ handlerCalls = 0
    /\ peerEvents = 0

\* The caller's goroutine calls a handler.
CallHandler(handler) ==
    /\ callerPc = Idle
    /\ handlerCalls < MaxHandlerCalls
    /\ callerPc' = [handler |-> handler, at |-> HandlerEntry(handler)]
    /\ handlerCalls' = handlerCalls + 1
    /\ UNCHANGED <<loopPc, peerEvents>>
    /\ UNCHANGED notTaskVars

\* The handler takes its next step on the caller's goroutine.
HandlerStep(proceeds) ==
    /\ callerPc # Idle
    /\ callerPc' =
          LET next == HandlerNext(callerPc.at, proceeds)
          IN IF next = "idle" THEN Idle ELSE [callerPc EXCEPT !.at = next]
    /\ UNCHANGED <<loopPc, handlerCalls, peerEvents>>
    /\ UNCHANGED notTaskVars

\* processMessages takes a message of a peer from peerEventsStream.
LoopReceive ==
    /\ loopPc = "receive"
    /\ peerEvents < MaxPeerMessages
    /\ loopPc' = "process"
    /\ peerEvents' = peerEvents + 1
    /\ UNCHANGED <<callerPc, handlerCalls>>
    /\ UNCHANGED notTaskVars

\* processMessages has processed the message, reading and writing
\* c.participants, and waits for the next.
LoopProcess ==
    /\ loopPc = "process"
    /\ loopPc' = "receive"
    /\ UNCHANGED <<callerPc, handlerCalls, peerEvents>>
    /\ UNCHANGED notTaskVars

NextTasks ==
    \/ \E handler \in Handlers : CallHandler(handler)
    \/ \E proceeds \in BOOLEAN : HandlerStep(proceeds)
    \/ LoopReceive
    \/ LoopProcess

\* ------------------------------------------------------------------------
\* The router and the participant maps of its conferences: an invite goes
\* to the conference its conf_id names, which registers the participant.

\* The participants one conference registers at most.
MaxRegistered == 1

\* The identities that send invites: the devices of the users in one call.
CallerIDs == {id \in ParticipantIDs : id.call = "call1"}

\* The steps at which NewPeer is let fail here.
CallFailures == {"none", "createPeerConnection"}

InitCalls == confParticipants = [c \in ConfIDs |-> {}]

\* An invite with the conf_id `conf` is handled by Router.handleMatrixEvent,
\* delivered to that conference and handled by its OnNewParticipant.
RouterInvite(conf, invite, failAt, visited) ==
    /\ ~routerPanicked
    /\ visited \subseteq confParticipants[conf]
    /\ LET evt == [type |-> ToDeviceCallInvite, conf |-> conf]
           routed == handleMatrixEvent(conferenceSinks, confState, evt, TRUE)
           res == onNewParticipant(confParticipants[conf], invite, failAt, visited)
       IN /\ routed.outcome = "delivered"
          /\ Cardinality(res.participants) <= MaxRegistered
          /\ confParticipants' = [confParticipants EXCEPT ![conf] = res.participants]
    /\ UNCHANGED notCallsVars

NextCalls ==
    \E conf \in ConfIDs, id \in CallerIDs, ss \in Sessions, failAt \in CallFailures :
       \E visited \in SUBSET confParticipants[conf] :
          RouterInvite(conf, ConfMessage(ToDeviceCallInvite, id, ss, Nil), failAt, visited)

\* ------------------------------------------------------------------------
\* getOptimalLayer: the simulcast layer a subscriber gets, given the layers
\* that are available, the size the source declares and the size the
\* subscriber asks for.

\* A width and a height.
Size(width, height) == [width |-> width, height |-> height]

\* The sizes the sources of TestGetOptimalLayer declare.
FullSizes ==
    {Size(1728, 1056), Size(1920, 1080), Size(1280, 720), Size(600, 400), Size(0, 0)}

\* The sizes the subscribers of TestGetOptimalLayer and of
\* TestGetOptimalLayerNone ask for.
DesiredSizes ==
    {Size(878, 799), Size(320, 240), Size(1900, 1000), Size(0, 0),
     Size(1280, 720), Size(640, 480), Size(1600, 1000), Size(500, 500),
     Size(200, 200), Size(100, 100)}

\* One case of TestGetOptimalLayer.
TestCase(available, full, desired, expected) ==
    [availableLayers |-> available, full |-> full, desired |-> desired,
     expectedOptimalLayer |-> expected]

\* The cases of TestGetOptimalLayer, and the one of TestGetOptimalLayerNone.
TestCases ==
    LET low == SimulcastLayerLow
        mid == SimulcastLayerMedium
        high == SimulcastLayerHigh
    IN {TestCase({low, mid, high}, Size(1728, 1056), Size(878, 799), mid),
        TestCase({low, mid, high}, Size(1920, 1080), Size(320, 240), low),
        TestCase({low, mid, high}, Size(1920, 1080), Size(1900, 1000), mid),
        TestCase({low, mid, high}, Size(1920, 1080), Size(0, 0), low),
        TestCase({low, mid, high}, Size(1280, 720), Size(1280, 720), high),
        TestCase({low, mid, high}, Size(1280, 720), Size(640, 480), mid),
        TestCase({low, mid, high}, Size(1280, 720), Size(320, 240), low),
        TestCase({low, mid}, Size(1280, 720), Size(1600, 1000), mid),
        TestCase({low, mid}, Size(1280, 720), Size(500, 500), mid),
        TestCase({low}, Size(1280, 720), Size(1600, 1000), low),
        TestCase({low}, Size(1280, 720), Size(500, 500), low),
        TestCase({high, mid, low}, Size(0, 0), Size(1600, 1000), low),
        TestCase({high, mid, low}, Size(0, 0), Size(0, 0), low),
        TestCase({high, mid, low}, Size(600, 400), Size(0, 0), low),
        TestCase({high}, Size(1280, 720), Size(200, 200), high),
        TestCase({}, Size(0, 0), Size(100, 100), SimulcastLayerNone)}

\* The layer that fits the request when every layer is available: high
\* when the request is as large as the source, medium when it is at least
\* half as large in width plus height, low when it is smaller or when a
\* size is not given.
calculateDesiredLayer(full, desired) ==
    LET fullSize == full.width + full.height
        desiredSize == desired.width + desired.height
    IN IF fullSize = 0 \/ desiredSize = 0 THEN SimulcastLayerLow
       ELSE IF fullSize <= desiredSize THEN SimulcastLayerHigh
       ELSE IF fullSize <= 2 * desiredSize THEN SimulcastLayerMedium
       ELSE SimulcastLayerLow

\* The first layer of `priority` that is available.
RECURSIVE FirstAvailable(_, _)
FirstAvailable(priority, layers) ==
    IF priority = <<>> THEN SimulcastLayerLow
    ELSE IF Head(priority) \in layers THEN Head(priority)
    ELSE FirstAvailable(Tail(priority), layers)

\* The number of pixels of a size.
Area(size) == size.width * size.height

\* The number of pixels of a layer of a source: the high layer has the size
\* of the source, the medium layer half its width and height, the low layer
\* a quarter.
EffectiveArea(layer, full) ==
    CASE layer = SimulcastLayerHigh -> Area(full)
      [] layer = SimulcastLayerMedium -> Area(full) \div 4
      [] OTHER -> Area(full) \div 16

\* The layers of `layers` with at least as many pixels as the request.
LargeEnough(layers, full, desired) ==
    {l \in layers : EffectiveArea(l, full) >= Area(desired)}

\* The lowest layer of a non-empty set of layers.
LowestOf(layers) ==
    IF SimulcastLayerLow \in layers THEN SimulcastLayerLow
    ELSE IF SimulcastLayerMedium \in layers THEN SimulcastLayerMedium
    ELSE SimulcastLayerHigh

\* The highest layer of a non-empty set of layers.
HighestOf(layers) ==
    IF SimulcastLayerHigh \in layers THEN SimulcastLayerHigh
    ELSE IF SimulcastLayerMedium \in layers THEN SimulcastLayerMedium
    ELSE SimulcastLayerLow

\* The selection by pixel area: the lowest available layer that has at
\* least as many pixels as the request, the lowest available layer when a
\* size is not given, the highest when no layer is large enough.
getOptimalLayer_ByArea(layers, full, desired) ==
    IF layers = {} THEN SimulcastLayerNone
    ELSE IF Area(full) = 0 \/ Area(desired) = 0 THEN LowestOf(layers)
    ELSE IF LargeEnough(layers, full, desired) = {} THEN HighestOf(layers)
    ELSE LowestOf(LargeEnough(layers, full, desired))

\* The selection that returns the highest available layer when a size is
\* not given.
getOptimalLayer_HighestWhenUnknown(layers, full, desired) ==
    IF layers = {} THEN SimulcastLayerNone
    ELSE IF Area(full) = 0 \/ Area(desired) = 0 THEN HighestOf(layers)
    ELSE FirstAvailable(<<calculateDesiredLayer(full, desired), SimulcastLayerMedium,
                          SimulcastLayerLow, SimulcastLayerHigh>>, layers)

\* getOptimalLayer(layers, metadata, desiredWidth, desiredHeight): none
\* without layers; else the layer that fits the request if it is available,
\* and the first available of medium, low, high if it is not.
getOptimalLayer(layers, full, desired) ==
    IF layers = {} THEN SimulcastLayerNone
    ELSE FirstAvailable(<<calculateDesiredLayer(full, desired), SimulcastLayerMedium,
                          SimulcastLayerLow, SimulcastLayerHigh>>, layers)

NoLayerCall == [availableLayers |-> {}, full |-> Size(0, 0), desired |-> Size(0, 0)]

InitLayer ==
    /\ layerCall = NoLayerCall
    /\ layerResult = Nil

\* One call of getOptimalLayer.
CallGetOptimalLayer(layers, full, desired) ==
    /\ layerCall' = [availableLayers |-> layers, full |-> full, desired |-> desired]
    /\ layerResult' = getOptimalLayer(layers, full, desired)
    /\ UNCHANGED notLayerVars

NextLayer ==
    \E layers \in SUBSET Layers, full \in FullSizes, desired \in DesiredSizes :
       CallGetOptimalLayer(layers, full, desired)

\* ------------------------------------------------------------------------
\* The router and the conferences that follow one another under one conf id:
\* which conference an entry of the map belongs to, and which conference an
\* end notification comes from.

\* The conferences that can run under one conf id, one after the other.
MaxConferences == 2

\* No entry in the map: r.conferenceSinks[conferenceID] is nil.
NoSink == 0

\* The conf ids that have an entry.
SinkKeys(sinks) == {c \in ConfIDs : sinks[c] # NoSink}

\* The state of the conference behind each entry, as Sender.Send meets it.
SinkStates(sinks, sealed) ==
    [c \in ConfIDs |->
        IF sinks[c] = NoSink THEN "none"
        ELSE IF sinks[c] \in sealed[c] THEN "sealed"
        ELSE "running"]

NoLoopStep ==
    [kind |-> Nil, type |-> Nil, conferenceID |-> Nil, from |-> NoSink,
     before |-> NoSink, stale |-> FALSE, outcome |-> Nil]

\* A router that serves one running conference under every conf id.
InitSinks ==
    /\ sinkOf = [c \in ConfIDs |-> 1]
    /\ sealedConfs = [c \in ConfIDs |-> {}]
    /\ endNotices = [c \in ConfIDs |-> {}]
    /\ loopPanicked = FALSE
    /\ loopLast = NoLoopStep

\* The conference registered under `c` ends: it closes its inbox and will
\* call Notify.
ConferenceEnds(c) ==
    /\ sinkOf[c] # NoSink
    /\ sinkOf[c] \notin sealedConfs[c]
    /\ sealedConfs' = [sealedConfs EXCEPT ![c] = @ \cup {sinkOf[c]}]
    /\ endNotices' = [endNotices EXCEPT ![c] = @ \cup {sinkOf[c]}]
    /\ UNCHANGED <<sinkOf, loopPanicked, loopLast>>
    /\ UNCHANGED notSinkVars

\* The loop's case MatrixMessage for an event with the conf id `c`.
LoopMatrixMessage(c, type, startOk) ==
    /\ ~loopPanicked
    /\ LET res == handleMatrixEvent(SinkKeys(sinkOf), SinkStates(sinkOf, sealedConfs),
                                    [type |-> type, conf |-> c], startOk)
           started == Cardinality(sealedConfs[c]) + 1
       IN /\ res.outcome = "created" => started <= MaxConferences
          /\ sinkOf' =
                [x \in ConfIDs |->
                    IF x \notin res.sinks THEN NoSink
                    ELSE IF x = c /\ res.outcome = "created" THEN started
                    ELSE sinkOf[x]]
          /\ loopPanicked' = (res.outcome = "nil_send")
          /\ loopLast' =
                [kind |-> "MatrixMessage", type |-> type, conferenceID |-> c,
                 from |-> NoSink, before |-> sinkOf[c],
                 stale |-> (sinkOf[c] # NoSink /\ sinkOf[c] \in sealedConfs[c]),
                 outcome |-> res.outcome]
    /\ UNCHANGED <<sealedConfs, endNotices>>
    /\ UNCHANGED notSinkVars

\* Notify of the conference `from` that ran under `c`, and the loop's case
\* ConferenceEndedMessage: the entry of the conf id is deleted.
LoopConferenceEnded(c, from) ==
    /\ ~loopPanicked
    /\ from \in endNotices[c]
    /\ endNotices' = [endNotices EXCEPT ![c] = @ \ {from}]
    /\ sinkOf' = [sinkOf EXCEPT ![c] = NoSink]
    /\ loopLast' =
          [kind |-> "ConferenceEndedMessage", type |-> Nil, conferenceID |-> c,
           from |-> from, before |-> sinkOf[c], stale |-> FALSE,
           outcome |-> IF sinkOf[c] # NoSink THEN "deleted" ELSE "already_absent"]
    /\ UNCHANGED <<sealedConfs, loopPanicked>>
    /\ UNCHANGED notSinkVars

NextSinks ==
    \/ \E c \in ConfIDs : ConferenceEnds(c)
    \/ \E c \in ConfIDs, type \in EventTypes, startOk \in BOOLEAN :
          LoopMatrixMessage(c, type, startOk)
    \/ \E c \in ConfIDs, from \in 1..MaxConferences : LoopConferenceEnded(c, from)

NextRouter ==
    \/ \E evt \in Events : MatrixSync(evt)
    \/ \E startOk \in BOOLEAN : RouterMatrixMessage(startOk)
    \/ RouterConferenceEnded
    \/ \E c \in ConfIDs : ConferenceReceive(c)
    \/ \E c \in ConfIDs : ConferenceClose(c)
    \/ \E c \in ConfIDs : Notify(c)

\* The router with conferences in its map.
\* The other components, as their construction leaves them.
InitRest ==
    InitWriteRTCP /\ InitDataChannel /\ InitReadRTCP /\ InitTasks /\ InitCalls /\ InitLayer /\ InitSinks

InitRouter ==
    /\ RouterServing /\ NewConference /\ InitPeer /\ NoPublishedTrack
    /\ InitRTCP /\ InitRest

SpecRouter == InitRouter /\ [][NextRouter]_vars

\* The same, where the router loop and the conference loops keep running and
\* a conference that waits to send on the router's channel gets its turn.
SpecRouterFair ==
    /\ SpecRouter
    /\ WF_vars(\E startOk \in BOOLEAN : RouterMatrixMessage(startOk))
    /\ WF_vars(RouterConferenceEnded)
    /\ \A c \in ConfIDs : WF_vars(ConferenceReceive(c)) /\ SF_vars(Notify(c))

\* The program from newRouter on: the Matrix syncer and the router loop.
Next ==
    \/ \E evt \in Events : MatrixSync(evt)
    \/ \E startOk \in BOOLEAN : RouterMatrixMessage(startOk)

Init ==
    /\ newRouter /\ NewConference /\ InitPeer /\ NoPublishedTrack
    /\ InitRTCP /\ InitRest

Spec == Init /\ [][Next]_vars

\* One conference handling the messages of its inbox.
SpecConference == Init /\ [][NextConference]_vars

\* One peer, from NewPeer on.
SpecPeer == Init /\ [][NextPeer]_vars

\* The key frame requests that reach the remote endpoint of one peer.
SpecRTCP == Init /\ [][NextRTCP]_vars

\* One published video track, its publishers and its subscribers.
InitTrack ==
    /\ newRouter /\ NewConference /\ InitPeer /\ NewPublishedTrack
    /\ InitRTCP /\ InitRest

SpecTrack == InitTrack /\ [][NextTrack]_vars

\* The calls of Peer.WriteRTCP of one peer.
SpecWriteRTCP == Init /\ [][NextWriteRTCP]_vars

\* The data channel pointer of one peer.
SpecDataChannel == Init /\ [][NextDataChannel]_vars

\* The router and the conferences that follow one another under a conf id.
SpecSinks == Init /\ [][NextSinks]_vars

\* The calls of getOptimalLayer.
SpecLayer == Init /\ [][NextLayer]_vars

\* The router's conferences and the participants they register.
SpecCalls == InitRouter /\ [][NextCalls]_vars

\* The goroutines of one conference.
SpecTasks == Init /\ [][NextTasks]_vars

\* The RTCP read loops of one subscription and of one peer.
SpecReadRTCP == Init /\ [][NextReadRTCP]_vars

\* The same, where a read loop that can take its next turn takes it.
SpecReadRTCPFair ==
    /\ SpecReadRTCP
    /\ WF_vars(SubscriptionTurn)
    /\ WF_vars(PeerTurn)

\* The same, where a goroutine that can take its next step takes it.
SpecTrackFair ==
    /\ SpecTrack
    /\ \A pub \in PubIDs :
          /\ WF_vars(ProcessStalled(pub))
          /\ WF_vars(ProcessRecovered(pub))
          /\ WF_vars(ProcessStopped(pub))

\* ------------------------------------------------------------------------
\* Properties of the router.

\* The router loop finishes handling a matrix event in this step.
RouterHandlesEvent == routerMsg.kind = "MatrixMessage" /\ routerMsg' = NoMessage

\* C1: a call-invite whose conf_id has no entry in the conference map makes
\* the router start a conference: after the event is handled the map holds
\* an entry for that conf_id (one entry more than before), the conference
\* runs with the invite handed to it, and the router goes on.
C1_InviteStartsConference ==
    [][(/\ RouterHandlesEvent
        /\ routerMsg.evt.type = ToDeviceCallInvite
        /\ routerMsg.evt.conf \in ConfIDs \ conferenceSinks
        /\ routerLast'.outcome # "start_failed")
       => (/\ routerMsg.evt.conf \in conferenceSinks'
           /\ Cardinality(conferenceSinks') = Cardinality(conferenceSinks) + 1
           /\ inboxOpen(confState', routerMsg.evt.conf)
           /\ routerLast'.outcome = "created"
           /\ ~routerPanicked')]_vars

\* C2: a call-invite for a conf_id whose entry belongs to a conference with a
\* sealed inbox ends with a newly started conference registered under the
\* same conf_id.
C2_StaleEntryInviteRecreates ==
    [][(/\ RouterHandlesEvent
        /\ routerMsg.evt.type = ToDeviceCallInvite
        /\ routerMsg.evt.conf \in conferenceSinks
        /\ ~inboxOpen(confState, routerMsg.evt.conf)
        /\ routerLast'.outcome # "start_failed")
       => (/\ routerMsg.evt.conf \in conferenceSinks'
           /\ inboxOpen(confState', routerMsg.evt.conf)
           /\ routerLast'.outcome = "created"
           /\ ~routerPanicked')]_vars

\* C3 as stated: a conf_id is a key of the conference map if and only if the
\* inbox of that conference is open.
C3_EntryIffInboxOpen ==
    \A c \in ConfIDs : c \in conferenceSinks <=> inboxOpen(confState, c)

\* C3 as amended: every conference with an open inbox has an entry in the map,
\* and an entry of a conference with a sealed inbox is there only while that
\* conference's end notification is not yet handled by the router.
C3_OpenInboxHasEntry ==
    \A c \in ConfIDs :
        /\ inboxOpen(confState, c) => c \in conferenceSinks
        /\ (c \in conferenceSinks /\ ~inboxOpen(confState, c)) =>
              \/ confState[c] = "sealed"
              \/ /\ routerMsg.kind = "ConferenceEndedMessage"
                 /\ routerMsg.conferenceID = c

\* A sealed conference still has its entry, beside a running one.
C3_Witness ==
    \E c, d \in conferenceSinks :
        /\ confState[c] = "sealed"
        /\ inboxOpen(confState, d)

\* C4: an event that is no call-invite and whose conf_id has no entry in the
\* conference map is dropped: the map, the conferences and their inboxes are
\* unchanged and the router goes on.
C4_UnknownConferenceDropped ==
    [][(/\ RouterHandlesEvent
        /\ routerMsg.evt.type # ToDeviceCallInvite
        /\ routerMsg.evt.conf \notin conferenceSinks)
       => (/\ UNCHANGED <<conferenceSinks, confState, confInbox>>
           /\ routerLast'.outcome \in {"unknown_conference", "no_conf_id"}
           /\ ~routerPanicked')]_vars

\* A hangup for an unknown conference was dropped while another conference
\* is served and holds a message.
C4_Witness ==
    /\ routerLast.kind = "MatrixMessage"
    /\ routerLast.type = ToDeviceCallHangup
    /\ routerLast.outcome = "unknown_conference"
    /\ \E c \in conferenceSinks : confInbox[c] # <<>>

\* C5: on a ConferenceEndedMessage the router deletes the entry of that
\* conference and does nothing with the unread message: no conference is
\* started, nothing is sent to a conference, the router goes on.
C5_EndedDeletesEntryOnly ==
    [][(/\ routerMsg.kind = "ConferenceEndedMessage"
        /\ routerMsg' = NoMessage)
       => (/\ conferenceSinks' = conferenceSinks \ {routerMsg.conferenceID}
           /\ UNCHANGED <<confState, confInbox>>
           /\ ~routerPanicked')]_vars

\* The router deleted an entry on a notification that carried an unread
\* call-invite.
C5_Witness ==
    /\ routerLast.kind = "ConferenceEndedMessage"
    /\ routerLast.type = ToDeviceCallInvite
    /\ routerLast.outcome = "deleted"
    /\ \E c \in ConfIDs : confState[c] = "ended" /\ c \notin conferenceSinks

\* ------------------------------------------------------------------------
\* Properties of the conference.

\* The conference finishes handling a call-invite in this step.
ConferenceHandlesInvite ==
    confMsg.type = ToDeviceCallInvite /\ confMsg' = NoConfMessage

\* The identities and sessions of the registered participants.
Recipients(parts) == {asMatrixRecipient(p) : p \in parts}

\* C6: no two registered participants of the conference have the same
\* (user, device, call id).
C6_UniqueParticipantIDs ==
    \A p, q \in participants : p.id = q.id => p = q

\* Two invites of one (user, device, call id) with different sessions were
\* answered and one participant is registered.
C6_Witness ==
    /\ Len(signalingSent) = 2
    /\ signalingSent[1] # signalingSent[2]
    /\ signalingSent[1].user = signalingSent[2].user
    /\ signalingSent[1].device = signalingSent[2].device
    /\ signalingSent[1].call = signalingSent[2].call
    /\ Cardinality(participants) = 1

\* C7: a call-invite with the (user, device, call id, session) of a registered
\* participant is rejected: the registered participants are the same as
\* before, no peer is created and no SDP answer is sent.
C7_DuplicateInviteRejected ==
    [][(/\ ConferenceHandlesInvite
        /\ Registered(participants, confMsg.id, confMsg.session))
       => (/\ Cardinality(participants') = Cardinality(participants)
           /\ Recipients(participants') = Recipients(participants)
           /\ \A p \in participants' : p \in participants \/ p.terminated
           /\ signalingSent' = signalingSent
           /\ confLast'.outcome = "duplicate")]_vars

\* An invite that repeats a registered participant was rejected.
C7_Witness ==
    /\ confLast.type = ToDeviceCallInvite
    /\ confLast.outcome = "duplicate"
    /\ confLast.known
    /\ participants # {}

\* C8: a call-invite is rejected as a duplicate only when user, device,
\* session and call id all equal those of a registered participant: every
\* other invite whose peer can be constructed registers the participant and
\* sends it an SDP answer.
C8_RejectedOnlyIfAllFourEqual ==
    [][(/\ ConferenceHandlesInvite
        /\ ~Registered(participants, confMsg.id, confMsg.session)
        /\ confLast'.failAt = "none")
       => (/\ Participant(confMsg.id, confMsg.session) \in participants'
           /\ signalingSent' =
                 Append(signalingSent,
                        asMatrixRecipient(Participant(confMsg.id, confMsg.session)))
           /\ confLast'.outcome = "registered")]_vars

\* C9: when NewPeer fails for an invite, the participant is not added to
\* the participant map and no SDP answer is sent.
C9_PeerErrorAbortsInvite ==
    [][(/\ ConferenceHandlesInvite
        /\ confLast'.failAt \in PeerSteps
        /\ Duplicates(participants, confMsg) = {})
       => (/\ Recipients(participants') = Recipients(participants)
           /\ Participant(confMsg.id, confMsg.session) \notin participants'
           /\ signalingSent' = signalingSent
           /\ confLast'.outcome = "peer_error")]_vars

\* An invite of a participant that is not registered was aborted because
\* the remote description could not be set, in a conference that has
\* participants.
C9_Witness ==
    /\ confLast.type = ToDeviceCallInvite
    /\ confLast.outcome = "peer_error"
    /\ confLast.failAt = "SetRemoteDescription"
    /\ ~confLast.known
    /\ participants # {}

\* ------------------------------------------------------------------------
\* Properties of the peer.

\* C10: there is no state in which the peer connection is closed while the
\* sink of the peer is still unsealed.
C10_SealedBeforeClosed ==
    connectionState = "closed" => sinkSealed

\* C11: once Peer.Terminate has been called, nothing more is delivered to the
\* conference: the messages the conference has still to read never grow, be
\* it by the LeftTheCall of the callback of the closed state or by the
\* RTCPReceived of a read task.
C11_NoDeliveryAfterTerminate ==
    [][terminatePc # "idle" => Len(peerMessages') <= Len(peerMessages)]_vars

\* ------------------------------------------------------------------------
\* Properties of the published track.

\* The steps in which the goroutine of `pub` handles a status, or the end of
\* its status channel.
HandlesStalled(pub) == pubPc[pub] = StatusStalled /\ pubPc'[pub] = "range"

HandlesRecovered(pub) == pubPc[pub] = StatusRecovered /\ pubPc'[pub] = "range"

\* The publishers that write packets to the subscription.
AttachedTo(att, sub) == {pub \in PubIDs : sub \in att[pub]}

\* C12: when the publisher of layer X stalls while the source is not muted and
\* a low publisher exists, every subscription whose current layer was X leaves
\* the stalled publisher, is attached to the low publisher and has the current
\* layer low; every other subscription keeps its layer and its publishers.
C12_StalledSwitchesToLow ==
    [][\A pub \in PubIDs :
          (HandlesStalled(pub) /\ ~muted /\ publishers[SimulcastLayerLow] # NoPublisher) =>
             LET lowLayer == publishers[SimulcastLayerLow]
             IN \A sub \in SubIDs :
                   IF subscriptions[sub] = pubLayer[pub]
                   THEN /\ subscriptions'[sub] = SimulcastLayerLow
                        /\ sub \in attached'[lowLayer]
                        /\ pub # lowLayer => sub \notin attached'[pub]
                   ELSE /\ subscriptions'[sub] = subscriptions[sub]
                        /\ AttachedTo(attached', sub) = AttachedTo(attached, sub)]_vars

\* A medium or high publisher stalled and its subscription is now on the low one.
C12_Witness ==
    /\ trackLast.status = StatusStalled
    /\ trackLast.outcome = "switched_to_low"
    /\ trackLast.layer # SimulcastLayerLow
    /\ \E sub \in trackLast.moved :
          /\ subscriptions[sub] = SimulcastLayerLow
          /\ publishers[SimulcastLayerLow] \in AttachedTo(attached, sub)
          /\ trackLast.pub \notin AttachedTo(attached, sub)
    /\ \E sub \in SubIDs \ trackLast.moved : subscriptions[sub] = SimulcastLayerLow

\* C13: when the only publisher of the track stalls while the source is not
\* muted and there is no low publisher, every subscription of its layer stays
\* in the table with the current layer none and is attached to no publisher;
\* and a subscription in that state stays in it in every step that is not the
\* handling of a recovered status.
C13_StalledWithoutFallback ==
    [][/\ \A pub \in PubIDs :
             (/\ HandlesStalled(pub)
              /\ ~muted
              /\ publishers[SimulcastLayerLow] = NoPublisher
              /\ ActivePublishers = {pub}) =>
                \A sub \in SubIDs :
                   subscriptions[sub] = pubLayer[pub] =>
                      /\ subscriptions'[sub] = SimulcastLayerNone
                      /\ AttachedTo(attached', sub) = {}
       /\ \A sub \in SubIDs :
             (/\ subscriptions[sub] = SimulcastLayerNone
              /\ AttachedTo(attached, sub) = {}
              /\ ~\E pub \in PubIDs : HandlesRecovered(pub)) =>
                /\ subscriptions'[sub] = SimulcastLayerNone
                /\ AttachedTo(attached', sub) = {}]_vars

\* The only publisher stalled and left its subscription without a source.
C13_Witness ==
    /\ trackLast.status = StatusStalled
    /\ trackLast.outcome = "no_layer"
    /\ ActivePublishers = {trackLast.pub}
    /\ \E sub \in trackLast.moved :
          /\ subscriptions[sub] = SimulcastLayerNone
          /\ AttachedTo(attached, sub) = {}

\* C14: a recovered status that a publisher emitted is eventually handled, the
\* subscriptions without a layer going to that publisher.
C14_RecoveredEventuallyHandled ==
    \A pub \in PubIDs :
       (pubPc[pub] = StatusRecovered) ~>
          (/\ pubPc[pub] # StatusRecovered
           /\ \A sub \in SubIDs : subscriptions[sub] # SimulcastLayerNone)

\* C15: a stalled status handled while the source is muted leaves every
\* subscription with its layer and its publishers, and the publisher map as
\* it was.
C15_MutedStallChangesNothing ==
    [][\A pub \in PubIDs :
          (HandlesStalled(pub) /\ muted) =>
             /\ subscriptions' = subscriptions
             /\ attached' = attached
             /\ publishers' = publishers]_vars

\* The publisher of a subscribed layer stalled under a muted source.
C15_Witness ==
    /\ muted
    /\ trackLast.status = StatusStalled
    /\ trackLast.outcome = "muted"
    /\ \E sub \in SubIDs :
          /\ subscriptions[sub] = trackLast.layer
          /\ trackLast.pub \in AttachedTo(attached, sub)

\* C16: when the status channel of a publisher closes, its
\* processPublisherEvents eventually returns, the publisher being out of the
\* publisher map and no subscription being left on its layer through it.
C16_StoppedPublisherRemoved ==
    \A pub \in PubIDs :
       (pubPc[pub] = ChannelClosed) ~>
          (pubPc[pub] = "returned" /\ publishers[pubLayer[pub]] # pub)

\* C17: every subscription whose current layer is not none is on a layer for
\* which the publisher map holds a publisher.
C17_SubscriptionConsistency ==
    \A sub \in SubIDs :
       subscriptions[sub] \in Layers => publishers[subscriptions[sub]] # NoPublisher

\* A publisher was removed with its subscription while another subscription
\* stays on a layer that has a publisher.
C17_Witness ==
    /\ trackLast.status = ChannelClosed
    /\ trackLast.moved # {}
    /\ \E sub \in SubIDs : subscriptions[sub] \in Layers

\* C18: a published video track whose publishers are observed holds between
\* one and three publishers in its map.
C18_OneToThreePublishers ==
    ActivePublishers # {} =>
       /\ Cardinality({layer \in Layers : publishers[layer] # NoPublisher}) >= 1
       /\ Cardinality({layer \in Layers : publishers[layer] # NoPublisher}) <= 3

\* ------------------------------------------------------------------------
\* The end of a conference.

\* C19: a conference that sealed its inbox when its last participant left
\* eventually has its ConferenceEndedMessage handled by the router, whose
\* conference map then holds no entry for it.
C19_EndedConferenceLeavesMap ==
    \A c \in ConfIDs :
       (confState[c] = "sealed") ~> (confState[c] = "ended" /\ c \notin conferenceSinks)

\* ------------------------------------------------------------------------
\* Key frame requests.

\* C20: between any two PLI or FIR packets that go to the remote endpoint of a
\* peer at least pli_min_interval_ms pass.
C20_PLIThrottle ==
    keyframeGap # NoTime => keyframeGap >= PLIMinInterval

\* ------------------------------------------------------------------------
\* Peer.WriteRTCP.

\* The receivers whose track has the id and the layer of `info`.
MatchingReceivers(recvs, info) ==
    {k \in 1..Len(recvs) :
        /\ recvs[k].hasTrack
        /\ recvs[k].trackID = info.trackID
        /\ RIDToSimulcastLayer(recvs[k].rid) = info.layer}

\* What a call of Peer.WriteRTCP must leave behind as far as the SSRC goes.
SSRCRewritten(recvs, call, result) ==
    IF MatchingReceivers(recvs, call.info) = {}
    THEN result.err = ErrTrackNotFound /\ ~result.wrote /\ result.toSend = <<>>
    ELSE /\ result.wrote
         /\ \A i \in DOMAIN result.toSend :
               result.toSend[i].type \in {PictureLossIndicator, FullIntraRequest}
                  => \E k \in MatchingReceivers(recvs, call.info) :
                        result.toSend[i].mediaSSRC = recvs[k].ssrc

\* C21: every PLI or FIR that a call of Peer.WriteRTCP hands to the peer
\* connection carries the SSRC of a receiver whose track has the track id
\* and the simulcast layer of the given track info; when no receiver
\* matches, the call returns ErrTrackNotFound and writes nothing.
C21_SSRCRewrite ==
    [][\A info \in TrackInfos, packets \in PacketLists(MaxPackets) :
          CallWriteRTCP(info, packets)
             => SSRCRewritten(receivers', writeCall', writeResult')]_vars

\* A FIR went out with the SSRC of the second receiver, the first receiver
\* having the same track id on another layer.
C21_Witness ==
    /\ Len(receivers) = 2
    /\ receivers[1].hasTrack /\ receivers[2].hasTrack
    /\ receivers[1].trackID = receivers[2].trackID
    /\ writeCall.info.trackID = receivers[2].trackID
    /\ writeResult.wrote
    /\ \E i \in DOMAIN writeResult.toSend :
          /\ writeCall.packets[i] = RTCPPacket(FullIntraRequest)
          /\ writeResult.toSend[i] =
                [type |-> FullIntraRequest, mediaSSRC |-> ReceiverSSRC(2)]

\* The PLI and FIR of `packets`, rewritten, in the order of `packets`.
RECURSIVE RewrittenOnly(_, _)
RewrittenOnly(packets, ssrc) ==
    IF packets = <<>> THEN <<>>
    ELSE IF Head(packets).type \in {PictureLossIndicator, FullIntraRequest}
         THEN <<Rewrite(Head(packets), ssrc)>> \o RewrittenOnly(Tail(packets), ssrc)
         ELSE RewrittenOnly(Tail(packets), ssrc)

\* C22: the list a call of Peer.WriteRTCP hands to the peer connection holds
\* exactly the rewritten PLI and FIR of its input, in input order; a packet
\* of another type leaves no element in it, not even a nil one.
C22_OnlyPLIAndFIRWritten ==
    writeResult.wrote =>
        /\ \A i \in DOMAIN writeResult.toSend : writeResult.toSend[i] # NilPacket
        /\ \E ssrc \in {ReceiverSSRC(n) : n \in 1..MaxReceivers} :
              writeResult.toSend = RewrittenOnly(writeCall.packets, ssrc)

\* ------------------------------------------------------------------------
\* The data channel pointer.

\* C23: over the lifetime of a peer the data channel pointer is assigned at
\* most once, and no onDataChannelReady assigns it after another task wrote
\* it since that onDataChannelReady checked it.
C23_DataChannelSetOnce == dcWrites <= 1 /\ ~dcRaced

\* ------------------------------------------------------------------------
\* The RTCP read loops.

\* C24: for every batch the subscription's sender returns, Subscription.readRTCP
\* calls RequestKeyFrame once for each PLI and each FIR of the batch, and
\* not at all for a packet of another kind.
C24_OneRequestPerKeyFrameRequest ==
    readLast.reader = SubscriptionReader =>
        readLast.requests =
            Cardinality({i \in DOMAIN readLast.batch :
                            readLast.batch[i] \in {PictureLossIndicator, FullIntraRequest}})

\* A batch with a FIR and a packet of another kind led to one call.
C24_Witness ==
    /\ readLast.reader = SubscriptionReader
    /\ readLast.batch = <<OtherPacket, FullIntraRequest>>
    /\ readLast.requests = 1

\* C29: once the sender an RTCP read task reads from is closed, the task
\* eventually exits, whatever errors its reads returned before.
C29_ReadersExit ==
    \A r \in Readers : senderClosed[r] ~> readerPc[r] = "exited"

\* Both read tasks exited on a closed sender after a read of each had
\* failed with an error that is no close.
C29_Witness ==
    \A r \in Readers :
        /\ senderClosed[r]
        /\ readErrored[r]
        /\ readerPc[r] = "exited"

\* ------------------------------------------------------------------------
\* The goroutines of a conference.

\* C25: every access of a conference's participant map happens in the
\* conference's one loop: no handler is at an access of the map on another
\* goroutine while processMessages processes a message.
C25_MapOnlyInLoop ==
    ~(callerPc.at \in MapAccesses /\ loopPc = "process")

\* ------------------------------------------------------------------------
\* The participants of the router's conferences.

\* The identities registered in a conference.
RegisteredIDs(conf) == {p.id : p \in confParticipants[conf]}

\* C26: a participant identity (user, device, call id) is registered in at
\* most one conference of the router at a time.
C26_OneConferencePerParticipant ==
    \A c1 \in ConfIDs, c2 \in ConfIDs :
        c1 # c2 => RegisteredIDs(c1) \cap RegisteredIDs(c2) = {}

\* ------------------------------------------------------------------------
\* getOptimalLayer.

\* A call was made: layerResult is what getOptimalLayer returned for
\* layerCall.
LayerCalled == layerResult # Nil

\* The call is one whose sizes are given and whose request is not above the
\* size of the source.
SizesGiven ==
    /\ layerCall.availableLayers # {}
    /\ Area(layerCall.full) # 0
    /\ Area(layerCall.desired) # 0
    /\ layerCall.desired.width <= layerCall.full.width
    /\ layerCall.desired.height <= layerCall.full.height

\* The cases of TestGetOptimalLayer with the arguments of the call.
CasesOfCall ==
    {c \in TestCases :
        /\ c.availableLayers = layerCall.availableLayers
        /\ c.full = layerCall.full
        /\ c.desired = layerCall.desired}

C30_MutexReleasedAfterEvent ==
    \A pub \in PubIDs : ~(mutex = pub /\ pubPc[pub] = "range")

\* ------------------------------------------------------------------------
\* End notifications and the conference they come from.

C32_OlderPublisherLeavesNewerAlone ==
    [][\A pub \in PubIDs :
          (/\ pubPc[pub] = ChannelClosed
           /\ pubPc'[pub] = "returned"
           /\ publishers[pubLayer[pub]] \notin {pub, NoPublisher})
          => LET newer == publishers[pubLayer[pub]]
             IN /\ publishers'[pubLayer[pub]] = newer
                /\ attached'[newer] = attached[newer]
                /\ \A sub \in attached[newer] :
                      subscriptions'[sub] = subscriptions[sub]]_vars

\* ------------------------------------------------------------------------
\* Rejected invites.

\* C33: an invite that OnNewParticipant rejects, as a duplicate or because
\* NewPeer failed, leaves every registered participant as it was: no peer of
\* a registered participant is terminated by it.
C33_RejectedInviteTerminatesNobody ==
    [][(/\ ConferenceHandlesInvite
        /\ confLast'.outcome \in {"duplicate", "peer_error"})
       => participants' = participants]_vars

\* ------------------------------------------------------------------------
\* The return of handleMatrixEvent.

\* C34: handleMatrixEvent returns for every event and every state of the
\* router: the event is dropped, delivered or starts a conference; the
\* router never sends on a nil conference handle.
C34_HandleMatrixEventReturns ==
    [][RouterHandlesEvent
       => (/\ routerLast'.outcome \in
                 {"no_conf_id", "created", "start_failed", "unknown_conference",
                  "delivered", "not_expected"}
           /\ ~routerPanicked')]_vars

\* ------------------------------------------------------------------------
\* The selection of the SFU's answer.

\* C35: a select_answer of a registered participant whose selected party id
\* is the party id the SFU stamps on its answer leaves the peer of that
\* participant running.
C35_SelectingTheSFUKeepsThePeer ==
    [][(/\ confMsg.type = ToDeviceCallSelectAnswer
        /\ confMsg' = NoConfMessage
        /\ confMsg.selectedPartyID = SFUDevice)
       => \A p \in getParticipant(participants, confMsg.id) :
             p \in participants']_vars

====
